---------------------------- MODULE Spec2Model ----------------------------
(***************************************************************************)
(* State-machine model of the chat request router:                         *)
(*   - the round-robin load balancer      (server/simple-balancer.js)      *)
(*   - the worker's chat-stream handler   (server/worker.js)               *)
(*   - the bridge's chat-stream handler   (server/openwebui-bridge.js)     *)
(*   - the cluster supervisor             (server/process-manager.js)      *)
(*   - the launchers                (server/start.js, start-cluster.js)    *)
(* Each program has its own specification (SpecBalancer, SpecWorker,       *)
(* SpecBridge, SpecManager and SpecShutdown, SpecLauncher); the variables  *)
(* of the other programs stay at their initial values.                     *)
(***************************************************************************)
EXTENDS Integers, Sequences, FiniteSets, TLC

VARIABLES
    \* ---- balancer (simple-balancer.js) ----
    current,        \* let current = 0            : the round-robin cursor (0-based)
    requestCount,   \* let requestCount = 0
    targets,        \* history: target index chosen for request 1..requestCount
    webCalls,       \* history: number of proxy.web invocations per request
    fwd,            \* per request: state of the forward and of its response
    \* ---- one chat-stream request (worker.js and openwebui-bridge.js) ----
    pc,             \* position of the /api/chat/stream handler
    userId,         \* req.userId / getUserId(req, res)
    body,           \* req.body: [message, nfiles]
    clientOpen,     \* the client still holds its connection
    res,            \* the HTTP response object
    call,           \* the upstream completion call and its response stream
    remaining,      \* bytes of the upstream body not yet delivered
    delivered,      \* history: bytes handed to the 'data' handler so far
    buffer,         \* let buffer = ''
    \* ---- worker.js only ----
    isClientConnected,  \* let isClientConnected = true
    axiosResponse,      \* let axiosResponse = null
    timeoutId,          \* let timeoutId = null
    sessions,           \* sessionManager.sessions
    workerStats,        \* const workerStats = { activeConnections, requests, errors }
    \* ---- openwebui-bridge.js only ----
    closeRegistered,    \* req.on('close', ...) has been registered
    assistantText,      \* let assistantText = ''
    conversationStore,  \* const conversationStore = new Map()
    \* ---- process-manager.js ----
    procs,          \* the worker processes forked so far; the pid is the index
    workers,        \* this.workers: ordinal -> { worker, pid, startedAt, restarts }
    order,          \* insertion order of the keys of this.workers
    stats,          \* this.stats: message.workerId -> rss in MB of the report
    now,            \* Date.now(), in units of the uptime ceiling
    check,          \* position of checkWorkers and of the restartWorker it awaits
    shutdowns,      \* totalWorkers of every shutdown(signal) call made so far
    exitCode,       \* code the manager exited with; Running while it runs
    \* ---- start.js and start-cluster.js ----
    script,         \* the launcher that runs
    phase,          \* position of the launcher's start-up
    loadBalancer,   \* the balancer child: its state and loadBalancer.killed
    children,       \* const workers = []: the worker children
    timers,         \* pending timers of shutdown
    signalLog,      \* history: signals received and kill() calls made
    launcherExit,   \* how the launcher ended; "running" while it runs
    \* ---- worker.js: the session store and the routes that use it ----
    dateNow,        \* Date.now() of the worker process, in milliseconds
    uuids,          \* number of crypto.randomUUID() calls made
    cur,            \* the request the middleware has just passed on (next())
    pending,        \* upload requests whose body multer is reading
    reply,          \* the last response sent by a session route: its status
                    \* and, of GET /api/files, its body
    responded,      \* per user, the descriptors the bodies of the upload
                    \* responses held (file of /api/upload, files of multiple)
    fileSeq,        \* number of file names generated by generateFileName
    \* ---- worker.js: initUploadDirs in every worker process ----
    locks,          \* per worker process: lockManager.locks has 'upload_dirs'
    initPc,         \* per worker process: position of initUploadDirs()
    uploadDir,      \* UPLOAD_BASE_DIR exists on the shared file system
    \* ---- openwebui-bridge.js: conversation histories of overlapping requests ----
    heap,           \* the history arrays alive in the bridge process
    storeRef,       \* conversationStore: user -> the array it holds (0: no entry)
    chats,          \* the open /api/chat/stream requests
    chatCount,      \* number of /api/chat/stream requests accepted so far
    pushed,         \* history: per user, the entries pushed onto a history
                    \* of the user since the user's last reset, in push
                    \* order, after a mark of that reset
    replies,        \* the last request received or response completed; of
                    \* a reset, also whether a reset for the same user was
                    \* the event before it
    \* ---- worker.js: the upload filter and the files on disk ----
    disk,           \* the paths of the files under UPLOAD_BASE_DIR
    filtered,       \* the last file fileFilter judged, and its verdict
    cleaned,        \* the last cleanupInactive() call and what it returned
    \* ---- worker.js and openwebui-bridge.js: POST /api/tts/generate ----
    tts,            \* the last /api/tts/generate request and how far it got
    ttsCalls,       \* number of synthesis requests sent upstream
    \* ---- shared.js: one LockManager and the callers of its acquire ----
    lockTable,      \* this.locks: the keys the map holds
    callers,        \* per caller of acquire: where it is, its key, start
                    \* (Date.now() at the call) and timeout
    lockClock       \* Date.now() of the process, in milliseconds

balancerVars == <<current, requestCount, targets, webCalls, fwd>>

chatVars == <<pc, userId, body, clientOpen, res, call, remaining, delivered, buffer>>

workerVars == <<isClientConnected, axiosResponse, timeoutId, sessions, workerStats>>

bridgeVars == <<closeRegistered, assistantText, conversationStore>>

managerVars == <<procs, workers, order, stats, now, check, shutdowns, exitCode>>

launcherVars == <<script, phase, loadBalancer, children, timers, signalLog, launcherExit>>

storeVars == <<dateNow, uuids, cur, pending, reply, responded, fileSeq>>

lockVars == <<locks, initPc, uploadDir>>

historyVars == <<heap, storeRef, chats, chatCount, pushed, replies>>

uploadVars == <<disk, filtered, cleaned>>

ttsVars == <<tts, ttsCalls>>

mutexVars == <<lockTable, callers, lockClock>>

vars == <<balancerVars, chatVars, workerVars, bridgeVars, managerVars, launcherVars,
         storeVars,
         lockVars,
         historyVars,
         uploadVars,
         ttsVars,
         mutexVars>>

(***************************************************************************)
(*                              BALANCER                                   *)
(***************************************************************************)

\* const workers = [ 'http://localhost:3001', ... , 'http://localhost:3004' ]
NumWorkers == 4

\* Bounds of the model: requests accepted in a run, requests in flight at once.
MaxRequests == 5
MaxInFlight == 2

Requests == 1..MaxRequests

\* A worker is named by its index in the workers array.
WorkerIdx == 0..(NumWorkers - 1)

\* res of a request nobody has sent yet
NoForward == [st |-> "none"]

\* current = (current + 1) % (workers.length - 1): an off-by-one in the modulus
NextCursorShort(c) == (c + 1) % (NumWorkers - 1)

\* current = (current + 1) % workers.length
NextCursor(c) == (c + 1) % NumWorkers

InFlight == {r \in Requests : fwd[r].st \in {"forwarding", "responding"}}

BalancerInit ==
    /\ current = 0
    /\ requestCount = 0
    /\ targets = <<>>
    /\ webCalls = [r \in Requests |-> 0]
    /\ fwd = [r \in Requests |-> NoForward]

\* The error callback of a balancer that retries the forward on the next worker.
ProxyWebErrorRetry(r) ==
    /\ fwd[r].st = "forwarding"
    /\ webCalls[r] < 2
    /\ webCalls' = [webCalls EXCEPT ![r] = @ + 1]
    /\ fwd' = [fwd EXCEPT ![r].target = current]
    /\ current' = NextCursor(current)
    /\ UNCHANGED <<requestCount, targets>>
    /\ UNCHANGED <<chatVars, workerVars, bridgeVars, managerVars, launcherVars, storeVars, lockVars, historyVars, uploadVars, ttsVars, mutexVars>>

\* http.createServer((req, res) => { ... }): the request handler.
\* requestCount++; target = workers[current]; current = (current+1) % length;
\* proxy.web(req, res, { target }, callback)
HandleRequest ==
    /\ requestCount < MaxRequests
    /\ Cardinality(InFlight) < MaxInFlight
    /\ LET r == requestCount + 1 IN
        /\ requestCount' = r
        /\ targets' = Append(targets, current)
        /\ webCalls' = [webCalls EXCEPT ![r] = @ + 1]
        /\ fwd' = [fwd EXCEPT ![r] =
                     [st |-> "forwarding", target |-> current,
                      headersSent |-> FALSE, writeHeads |-> 0,
                      status |-> 0, hit |-> -1]]
        /\ current' = NextCursor(current)
    /\ UNCHANGED <<chatVars, workerVars, bridgeVars, managerVars, launcherVars, storeVars, lockVars, historyVars, uploadVars, ttsVars, mutexVars>>

\* proxy.on('proxyRes', ...): the worker's response head arrived.  The handler
\* sets X-Load-Balancer and X-Worker-Hit = current (the cursor's value now);
\* http-proxy then writes the worker's status and headers to res and pipes
\* the body.
ProxyRes(r) ==
    /\ fwd[r].st = "forwarding"
    /\ fwd' = [fwd EXCEPT ![r].st = "responding",
                          ![r].hit = current,
                          ![r].headersSent = TRUE,
                          ![r].writeHeads = @ + 1,
                          ![r].status = 200]
    /\ UNCHANGED <<current, requestCount, targets, webCalls>>
    /\ UNCHANGED <<chatVars, workerVars, bridgeVars, managerVars, launcherVars, storeVars, lockVars, historyVars, uploadVars, ttsVars, mutexVars>>

\* The worker's response body ended: http-proxy ends res, and the response
\* object of the request is gone.
ProxyEnd(r) ==
    /\ fwd[r].st = "responding"
    /\ fwd' = [fwd EXCEPT ![r] = [st |-> "finished", target |-> fwd[r].target]]
    /\ UNCHANGED <<current, requestCount, targets, webCalls>>
    /\ UNCHANGED <<chatVars, workerVars, bridgeVars, managerVars, launcherVars, storeVars, lockVars, historyVars, uploadVars, ttsVars, mutexVars>>

\* err.message of the errors http-proxy reports for a forward: the worker
\* refuses the connection, or the connection breaks.
ErrorMessages == {"connect ECONNREFUSED", "socket hang up"}

\* An error body that leaves the underlying error text out.
ErrorBodyNoDetails(err) ==
    [success |-> FALSE, error |-> "proxy server error", details |-> ""]

\* JSON.stringify({ success: false, error: '代理服务器错误', details: err.message })
\* (the fixed text is written here in English)
ErrorBody(err) ==
    [success |-> FALSE, error |-> "proxy server error", details |-> err]

\* proxy.web's callback (err) => { writeHead(500); end(JSON...) }.  http-proxy
\* hands an error to the callback when one is passed (the 'error' listener is
\* then not used).  The callback has no headersSent guard: after the head was
\* flushed, writeHead is called again (and throws ERR_HTTP_HEADERS_SENT, so
\* no body follows).  errorBody is the list of bodies written by the callback.
ProxyWebError(r) ==
    /\ fwd[r].st \in {"forwarding", "responding"}
    /\ \E e \in ErrorMessages :
         fwd' = [fwd EXCEPT ![r] =
                 IF fwd[r].headersSent
                 THEN [st |-> "failed", target |-> fwd[r].target,
                       headersSent |-> TRUE,
                       writeHeads |-> fwd[r].writeHeads + 1,
                       status |-> fwd[r].status,
                       errorBody |-> <<>>]
                 ELSE [st |-> "failed", target |-> fwd[r].target,
                       headersSent |-> TRUE,
                       writeHeads |-> fwd[r].writeHeads + 1,
                       status |-> 500,
                       err |-> e,
                       errorBody |-> <<ErrorBody(e)>>]]
    /\ UNCHANGED <<current, requestCount, targets, webCalls>>
    /\ UNCHANGED <<chatVars, workerVars, bridgeVars, managerVars, launcherVars, storeVars, lockVars, historyVars, uploadVars, ttsVars, mutexVars>>

BalancerNext ==
    \/ HandleRequest
    \/ \E r \in Requests : ProxyRes(r)
    \/ \E r \in Requests : ProxyEnd(r)
    \/ \E r \in Requests : ProxyWebError(r)

(***************************************************************************)
(*              THE UPSTREAM BYTE STREAM AND ITS RE-FRAMING                *)
(*                                                                         *)
(* The upstream body is a sequence of bytes.  A byte is one of             *)
(*   "NL"    the line feed                                                 *)
(*   "DATA"  the bytes of the prefix `data: `                              *)
(*   "{"     the bytes of `{"choices":[{"delta":{"content":"`              *)
(*   "}"     the bytes of `"}}]}`                                          *)
(*   "a"     an ASCII character of the content                             *)
(*   "e1","e2"  the lead and the continuation byte of a two-byte UTF-8     *)
(*           character of the content                                      *)
(*   "x"     a byte that makes the payload no JSON                         *)
(*   "DONE"  the bytes of `[DONE]`                                         *)
(* A character (after decoding) is one of these except "e1"/"e2", or "E"   *)
(* (the two-byte character) or "?" (U+FFFD, the replacement character).    *)
(***************************************************************************)

\* Bound of the model: lines of an upstream body.
MaxLines == 2

\* The lines an upstream body is made of: a content delta in ASCII, one with
\* a two-byte character, an empty delta, a payload that is no JSON, a blank
\* line, the vendor's [DONE] marker.
LineSet == { <<"DATA", "{", "a", "}">>,
             <<"DATA", "{", "e1", "e2", "}">>,
             <<"DATA", "{", "}">>,
             <<"DATA", "x">>,
             <<>>,
             <<"DATA", "DONE">> }

RECURSIVE BodiesOf(_)
BodiesOf(n) ==
    IF n = 0 THEN { <<>> }
    ELSE LET shorter == BodiesOf(n - 1) IN
         shorter \cup { b \o l \o <<"NL">> : b \in shorter, l \in LineSet }

\* Upstream bodies: up to MaxLines lines, each ended by a line feed, or with
\* the line feed of the last line missing.
Streams ==
    LET whole == BodiesOf(MaxLines) IN
    whole \cup { SubSeq(b, 1, Len(b) - 1) : b \in whole \ { <<>> } }

\* chunk.toString(): UTF-8 decoding of one network chunk.  A lead byte with
\* no continuation byte in the same chunk, and a continuation byte with no
\* lead byte before it, each decode to U+FFFD.
RECURSIVE Utf8ToString(_)
Utf8ToString(bytes) ==
    IF bytes = <<>> THEN <<>>
    ELSE IF Head(bytes) = "e1"
         THEN IF Len(bytes) >= 2 /\ bytes[2] = "e2"
              THEN <<"E">> \o Utf8ToString(Tail(Tail(bytes)))
              ELSE <<"?">> \o Utf8ToString(Tail(bytes))
    ELSE IF Head(bytes) = "e2"
         THEN <<"?">> \o Utf8ToString(Tail(bytes))
    ELSE <<Head(bytes)>> \o Utf8ToString(Tail(bytes))

\* str.split('\n'): k line feeds give k + 1 pieces.
RECURSIVE SplitNL(_, _)
SplitNL(str, piece) ==
    IF str = <<>> THEN << piece >>
    ELSE IF Head(str) = "NL"
         THEN << piece >> \o SplitNL(Tail(str), <<>>)
         ELSE SplitNL(Tail(str), Append(piece, Head(str)))

\* const lines = buffer.split('\n'); buffer = lines.pop() || '';
LinesOf(str) == LET p == SplitNL(str, <<>>) IN SubSeq(p, 1, Len(p) - 1)

RestOf(str) == LET p == SplitNL(str, <<>>) IN p[Len(p)]

ContentChars == {"a", "E", "?"}

\* JSON.parse(data) and parsed.choices[0]?.delta?.content
JsonOk(data) ==
    /\ Len(data) >= 2
    /\ data[1] = "{"
    /\ data[Len(data)] = "}"
    /\ \A i \in 2..(Len(data) - 1) : data[i] \in ContentChars

DeltaContent(data) == SubSeq(data, 2, Len(data) - 1)

ChunkEvent(content) == [type |-> "chunk", content |-> content]

Event(t) == [type |-> t, content |-> <<>>]

\* worker.js, the body of `for (const line of lines)`: the events written for
\* one line.
WorkerLineEvents(line, connected) ==
    IF line = <<>> THEN <<>>                           \* line.trim() === ''
    ELSE IF Head(line) # "DATA" THEN <<>>              \* !line.startsWith('data: ')
    ELSE LET data == Tail(line) IN                     \* line.slice(6)
         IF data = <<"DONE">>
         THEN IF connected THEN << Event("done") >> ELSE <<>>
         ELSE IF JsonOk(data) /\ DeltaContent(data) # <<>>
              THEN IF connected THEN << ChunkEvent(DeltaContent(data)) >> ELSE <<>>
              ELSE <<>>                                \* no content, or catch (e)

RECURSIVE WorkerLinesEvents(_, _)
WorkerLinesEvents(lines, connected) ==
    IF lines = <<>> THEN <<>>
    ELSE WorkerLineEvents(Head(lines), connected)
           \o WorkerLinesEvents(Tail(lines), connected)

\* openwebui-bridge.js, the body of `for (const line of lines)`.
BridgeLineEvents(line) ==
    IF line = <<>> THEN <<>>
    ELSE IF Head(line) # "DATA" THEN <<>>              \* !line.startsWith('data:')
    ELSE LET payload == Tail(line) IN                  \* line.slice(5).trim()
         IF payload = <<>> THEN <<>>
         ELSE IF payload = <<"DONE">> THEN << Event("[DONE]") >>
         ELSE IF JsonOk(payload) /\ DeltaContent(payload) # <<>>
              THEN << ChunkEvent(DeltaContent(payload)) >>
              ELSE <<>>

RECURSIVE BridgeLinesEvents(_)
BridgeLinesEvents(lines) ==
    IF lines = <<>> THEN <<>>
    ELSE BridgeLineEvents(Head(lines)) \o BridgeLinesEvents(Tail(lines))

\* The chunk events among a sequence of events, and their contents.
RECURSIVE ChunkContents(_)
ChunkContents(events) ==
    IF events = <<>> THEN <<>>
    ELSE IF Head(events).type = "chunk"
         THEN << Head(events).content >> \o ChunkContents(Tail(events))
         ELSE ChunkContents(Tail(events))

RECURSIVE Concat(_)
Concat(seqs) == IF seqs = <<>> THEN <<>> ELSE Head(seqs) \o Concat(Tail(seqs))

(***************************************************************************)
(*                     ONE CHAT-STREAM REQUEST: STATE                      *)
(***************************************************************************)

Users == {"u1", "u2"}

Messages == {"", "hi"}

\* The files list of a request body is modelled by its length.
FileCounts == 0..1

\* Number of identifiers crypto.randomUUID() hands out in a run.
MaxUuids == 1

\* crypto.randomUUID(): the k-th identifier generated by the worker.
Uuid(k) == << "uuid-1", "uuid-2", "uuid-3" >>[k]

\* The keys sessionManager.sessions can hold.
UserIds == Users \cup { Uuid(k) : k \in 1..MaxUuids }

\* const workerId = process.env.WORKER_ID || '1'
WORKER_ID == "1"

\* sessionManager.getSession(userId) returns null
NoSession == [exists |-> FALSE]

\* new UserSession(userId, workerId): lastActivity is Date.now(), files and
\* chatHistory are empty (createdAt and preferences are never read).
UserSession(u) ==
    [exists |-> TRUE, id |-> u, workerId |-> WORKER_ID,
     lastActivity |-> dateNow,
     files |-> <<>>, chatHistory |-> <<>>]

\* The middleware stores a new session whatever the store holds.
ResolveSessionAlwaysNew(ss, u) == [ss EXCEPT ![u] = UserSession(u)]

\* let session = await sessionManager.getSession(userId);
\* if (!session) session = await sessionManager.createSession(userId, workerId);
\* The store after the middleware resolved the session of u.
ResolveSession(ss, u) ==
    IF ss[u].exists THEN ss ELSE [ss EXCEPT ![u] = UserSession(u)]

\* updateActivity() { this.lastActivity = Date.now(); return this; }
UpdateActivity(session) == [session EXCEPT !.lastActivity = dateNow]

\* The file is not kept.
AddFileDropped(session, fileInfo) == session

\* addFile(fileInfo): this.files.push({ ...fileInfo, uploadedAt: Date.now(),
\* userId: this.id }).  Of a descriptor the model keeps id, name and type.
AddFile(session, fileInfo) ==
    [session EXCEPT !.files =
        Append(@, [id |-> fileInfo.id, name |-> fileInfo.name,
                   type |-> fileInfo.type, userId |-> session.id])]

\* req.files.map(file => { ...; req.session.addFile(fileInfo); ... })
RECURSIVE AddFiles(_, _)
AddFiles(session, fileInfos) ==
    IF fileInfos = <<>> THEN session
    ELSE AddFiles(AddFile(session, Head(fileInfos)), Tail(fileInfos))

\* cleanupInactive(timeout = 3600000): now - this.lastActivity > timeout
IdleTimeout == 3600000

CleanupInactive(session, t) == t - session.lastActivity > IdleTimeout

NoConversation == <<>>

FreshRes == [headersSent |-> FALSE, status |-> 0, contentType |-> "none",
             json |-> "none", events |-> <<>>, ended |-> FALSE, finished |-> FALSE]

ChatInit ==
    /\ pc = "idle"
    /\ userId = "none"
    /\ body = [message |-> "", nfiles |-> 0]
    /\ clientOpen = TRUE
    /\ res = FreshRes
    /\ call = "none"
    /\ remaining = <<>>
    /\ delivered = <<>>
    /\ buffer = <<>>
    /\ isClientConnected = TRUE
    /\ axiosResponse = "null"
    /\ timeoutId = "null"
    /\ sessions = [u \in UserIds |-> NoSession]
    /\ workerStats = [activeConnections |-> 0, requests |-> 0, errors |-> 0]
    /\ closeRegistered = FALSE
    /\ assistantText = <<>>
    /\ conversationStore = [u \in Users |-> NoConversation]

\* res.write(...) of a sequence of events: the first write flushes the head.
ResWrite(r, events) ==
    [r EXCEPT !.headersSent = TRUE,
              !.status = IF r.headersSent THEN @ ELSE 200,
              !.events = @ \o events]

\* res.end()
ResEnd(r) == [r EXCEPT !.headersSent = TRUE,
                       !.status = IF r.headersSent THEN @ ELSE 200,
                       !.ended = TRUE]

\* clearTimeout(timeoutId) under `if (timeoutId)`
ClearTimeout(t) == IF t = "armed" THEN "cleared" ELSE t

(***************************************************************************)
(*                 worker.js: POST /api/chat/stream                        *)
(***************************************************************************)

ErrorDone == << Event("error"), Event("done") >>

\* The guarded terminal write that worker.js repeats in its timeout, end,
\* error and catch paths:
\*   if (isClientConnected && !res.headersSent) { write(...); ...; res.end(); }
WriteIfFresh(r, connected, events) ==
    IF connected /\ ~r.headersSent THEN ResEnd(ResWrite(r, events)) ELSE r

\* response.data.destroy(): a stream already ended, failed or destroyed stays so.
Destroy(c) == IF c = "streaming" THEN "destroyed" ELSE c

\* The session middleware (app.use(async (req, res, next) => ...)) and the
\* handler up to the file loop: the counters, the user id, the session
\* looked up or created, req.on('close') registered, updateActivity and
\* setSession.  Awaits of the in-memory session manager are microtasks, so no
\* event is handled in between.
WorkerAccept(u, m, n) ==
    /\ pc = "idle"
    /\ pc' = "files"
    /\ userId' = u
    /\ body' = [message |-> m, nfiles |-> n]
    /\ workerStats' = [workerStats EXCEPT !.requests = @ + 1,
                                          !.activeConnections = @ + 1]
    /\ sessions' = [ResolveSession(sessions, u) EXCEPT ![u] = UpdateActivity(@)]
    /\ isClientConnected' = TRUE
    /\ axiosResponse' = "null"
    /\ timeoutId' = "null"
    /\ UNCHANGED <<clientOpen, res, call, remaining, delivered, buffer>>
    /\ UNCHANGED <<balancerVars, bridgeVars, managerVars, launcherVars, storeVars, lockVars, historyVars, uploadVars, ttsVars, mutexVars>>

\* The handler from the file loop (which awaits the file system when files
\* are attached) to the upstream call: the empty-input check, the SSE
\* headers, the timer, the connected check, the model_info event, axios(...).
WorkerBuildAndSend ==
    /\ pc = "files"
    /\ IF body.message = "" /\ body.nfiles = 0
       THEN \* return res.status(400).json({ error: ... })
            /\ res' = [res EXCEPT !.headersSent = TRUE, !.status = 400,
                                  !.contentType = "json", !.json = "error",
                                  !.ended = TRUE]
            /\ pc' = "done"
            /\ UNCHANGED <<timeoutId, call>>
       ELSE IF ~isClientConnected
            THEN \* if (timeoutId) clearTimeout(timeoutId); return;
                 /\ res' = [res EXCEPT !.contentType = "sse"]
                 /\ timeoutId' = "cleared"
                 /\ pc' = "done"
                 /\ UNCHANGED call
            ELSE /\ res' = ResWrite([res EXCEPT !.contentType = "sse"],
                                    << Event("model_info") >>)
                 /\ timeoutId' = "armed"
                 /\ call' = "pending"
                 /\ pc' = "awaitUpstream"
    /\ UNCHANGED <<userId, body, clientOpen, remaining, delivered, buffer>>
    /\ UNCHANGED <<isClientConnected, axiosResponse, sessions, workerStats>>
    /\ UNCHANGED <<balancerVars, bridgeVars, managerVars, launcherVars, storeVars, lockVars, historyVars, uploadVars, ttsVars, mutexVars>>

\* axios resolves with a response stream: axiosResponse = response.data,
\* buffer = '', and the data, end and error handlers are registered.
WorkerUpstreamResponds(s) ==
    /\ pc = "awaitUpstream"
    /\ call = "pending"
    /\ call' = "streaming"
    /\ remaining' = s
    /\ delivered' = <<>>
    /\ axiosResponse' = "stream"
    /\ buffer' = <<>>
    /\ pc' = "streaming"
    /\ UNCHANGED <<userId, body, clientOpen, res>>
    /\ UNCHANGED <<isClientConnected, timeoutId, sessions, workerStats>>
    /\ UNCHANGED <<balancerVars, bridgeVars, managerVars, launcherVars, storeVars, lockVars, historyVars, uploadVars, ttsVars, mutexVars>>

\* axios rejects (non-2xx status, network failure, axios' own timeout):
\* catch (apiError).
WorkerUpstreamRejects ==
    /\ pc = "awaitUpstream"
    /\ call = "pending"
    /\ call' = "rejected"
    /\ workerStats' = [workerStats EXCEPT !.errors = @ + 1]
    /\ timeoutId' = ClearTimeout(timeoutId)
    /\ res' = WriteIfFresh(res, isClientConnected, ErrorDone)
    /\ pc' = "done"
    /\ UNCHANGED <<userId, body, clientOpen, remaining, delivered, buffer>>
    /\ UNCHANGED <<isClientConnected, axiosResponse, sessions>>
    /\ UNCHANGED <<balancerVars, bridgeVars, managerVars, launcherVars, storeVars, lockVars, historyVars, uploadVars, ttsVars, mutexVars>>

\* A data handler without the connected checks (as the bridge's handler is).
WorkerDataEventsUnguarded(text, connected) ==
    WorkerLinesEvents(LinesOf(text), TRUE)

\* The events the data handler writes, given the buffered text and
\* isClientConnected: none after `if (!isClientConnected) { destroy; return }`.
WorkerDataEvents(text, connected) ==
    IF ~connected THEN <<>> ELSE WorkerLinesEvents(LinesOf(text), connected)

\* response.data.on('data', (chunk) => ...) for a chunk of n bytes.
WorkerOnData(n) ==
    /\ pc = "streaming"
    /\ call = "streaming"
    /\ n \in 1..Len(remaining)
    /\ LET chunk == SubSeq(remaining, 1, n)
           text  == buffer \o Utf8ToString(chunk)
           ev    == WorkerDataEvents(text, isClientConnected)
       IN  /\ remaining' = SubSeq(remaining, n + 1, Len(remaining))
           /\ delivered' = delivered \o chunk
           /\ res' = IF ev = <<>> THEN res ELSE ResWrite(res, ev)
           /\ IF ~isClientConnected
              THEN \* response.data.destroy(); return;
                   /\ call' = "destroyed"
                   /\ pc' = "done"
                   /\ UNCHANGED buffer
              ELSE /\ buffer' = RestOf(text)
                   /\ UNCHANGED <<call, pc>>
    /\ UNCHANGED <<userId, body, clientOpen>>
    /\ UNCHANGED <<isClientConnected, axiosResponse, timeoutId, sessions, workerStats>>
    /\ UNCHANGED <<balancerVars, bridgeVars, managerVars, launcherVars, storeVars, lockVars, historyVars, uploadVars, ttsVars, mutexVars>>

\* response.data.on('end', ...)
WorkerOnEnd ==
    /\ pc = "streaming"
    /\ call = "streaming"
    /\ remaining = <<>>
    /\ call' = "ended"
    /\ timeoutId' = ClearTimeout(timeoutId)
    /\ res' = WriteIfFresh(res, isClientConnected, << Event("done") >>)
    /\ pc' = "done"
    /\ UNCHANGED <<userId, body, clientOpen, remaining, delivered, buffer>>
    /\ UNCHANGED <<isClientConnected, axiosResponse, sessions, workerStats>>
    /\ UNCHANGED <<balancerVars, bridgeVars, managerVars, launcherVars, storeVars, lockVars, historyVars, uploadVars, ttsVars, mutexVars>>

\* response.data.on('error', ...): the upstream stream fails mid-flight.
WorkerOnError ==
    /\ pc = "streaming"
    /\ call = "streaming"
    /\ call' = "errored"
    /\ workerStats' = [workerStats EXCEPT !.errors = @ + 1]
    /\ timeoutId' = ClearTimeout(timeoutId)
    /\ res' = WriteIfFresh(res, isClientConnected, ErrorDone)
    /\ pc' = "done"
    /\ UNCHANGED <<userId, body, clientOpen, remaining, delivered, buffer>>
    /\ UNCHANGED <<isClientConnected, axiosResponse, sessions>>
    /\ UNCHANGED <<balancerVars, bridgeVars, managerVars, launcherVars, storeVars, lockVars, historyVars, uploadVars, ttsVars, mutexVars>>

\* req.on('close', ...): the client disconnects.  Between WorkerAccept and
\* WorkerBuildAndSend an event is handled only while the file loop awaits the
\* file system, that is when files are attached.
WorkerOnClose ==
    /\ pc \in {"files", "awaitUpstream", "streaming", "done"}
    /\ pc = "files" => body.nfiles > 0
    /\ clientOpen
    /\ ~res.ended
    /\ clientOpen' = FALSE
    /\ isClientConnected' = FALSE
    /\ call' = IF axiosResponse = "stream" THEN Destroy(call) ELSE call
    /\ pc' = IF axiosResponse = "stream" /\ call = "streaming" THEN "done" ELSE pc
    /\ timeoutId' = ClearTimeout(timeoutId)
    /\ UNCHANGED <<userId, body, res, remaining, delivered, buffer>>
    /\ UNCHANGED <<axiosResponse, sessions, workerStats>>
    /\ UNCHANGED <<balancerVars, bridgeVars, managerVars, launcherVars, storeVars, lockVars, historyVars, uploadVars, ttsVars, mutexVars>>

\* The callback of timeoutId = setTimeout(..., 120000).
WorkerOnTimeout ==
    /\ timeoutId = "armed"
    /\ timeoutId' = "fired"
    /\ res' = WriteIfFresh(res, isClientConnected, ErrorDone)
    /\ call' = IF axiosResponse = "stream" THEN Destroy(call) ELSE call
    /\ pc' = IF axiosResponse = "stream" /\ call = "streaming" THEN "done" ELSE pc
    /\ UNCHANGED <<userId, body, clientOpen, remaining, delivered, buffer>>
    /\ UNCHANGED <<isClientConnected, axiosResponse, sessions, workerStats>>
    /\ UNCHANGED <<balancerVars, bridgeVars, managerVars, launcherVars, storeVars, lockVars, historyVars, uploadVars, ttsVars, mutexVars>>

\* res.on('finish', () => { workerStats.activeConnections--; })
WorkerOnFinish ==
    /\ res.ended
    /\ ~res.finished
    /\ res' = [res EXCEPT !.finished = TRUE]
    /\ workerStats' = [workerStats EXCEPT !.activeConnections = @ - 1]
    /\ UNCHANGED <<pc, userId, body, clientOpen, call, remaining, delivered, buffer>>
    /\ UNCHANGED <<isClientConnected, axiosResponse, timeoutId, sessions>>
    /\ UNCHANGED <<balancerVars, bridgeVars, managerVars, launcherVars, storeVars, lockVars, historyVars, uploadVars, ttsVars, mutexVars>>

WorkerNext ==
    \/ \E u \in Users, m \in Messages, n \in FileCounts : WorkerAccept(u, m, n)
    \/ WorkerBuildAndSend
    \/ \E s \in Streams : WorkerUpstreamResponds(s)
    \/ WorkerUpstreamRejects
    \/ \E n \in 1..Len(remaining) : WorkerOnData(n)
    \/ WorkerOnEnd
    \/ WorkerOnError
    \/ WorkerOnClose
    \/ WorkerOnTimeout
    \/ WorkerOnFinish

(***************************************************************************)
(*             openwebui-bridge.js: POST /api/chat/stream                  *)
(***************************************************************************)

\* const MAX_HISTORY_TURNS = Number(process.env.MAX_HISTORY_TURNS || 20);
\* the bridge is run with MAX_HISTORY_TURNS=1 in its environment, so that
\* histories longer than the limit are within reach.
MAX_HISTORY_TURNS == 1

\* { role: 'system', content: DEFAULT_SYSTEM_PROMPT }
SystemEntry == [role |-> "system", content |-> "DEFAULT_SYSTEM_PROMPT"]

\* A history created on first use starts empty.
GetConversationBare(store, u) ==
    IF store[u] = NoConversation THEN <<>> ELSE store[u]

\* getConversation(userId): the stored history, created on first use.
GetConversation(store, u) ==
    IF store[u] = NoConversation THEN << SystemEntry >> ELSE store[u]

RECURSIVE NonSystem(_)
NonSystem(history) ==
    IF history = <<>> THEN <<>>
    ELSE IF Head(history).role # "system"
         THEN << Head(history) >> \o NonSystem(Tail(history))
         ELSE NonSystem(Tail(history))

\* history.find((m) => m.role === 'system') || default
FirstSystem(history) ==
    IF \E i \in 1..Len(history) : history[i].role = "system"
    THEN history[CHOOSE i \in 1..Len(history) :
                    /\ history[i].role = "system"
                    /\ \A j \in 1..(i - 1) : history[j].role # "system"]
    ELSE SystemEntry

\* The oldest entries are kept instead of the newest.
TruncateConversationOldest(history) ==
    LET rest == NonSystem(history)
        keep == 2 * MAX_HISTORY_TURNS
        to == IF Len(rest) > keep THEN keep ELSE Len(rest)
    IN  << FirstSystem(history) >> \o SubSeq(rest, 1, to)

\* truncateConversation(history): [system, ...rest.slice(-MAX_HISTORY_TURNS * 2)];
\* slice(-0) is slice(0), the whole list.
TruncateConversation(history) ==
    LET rest == NonSystem(history)
        keep == 2 * MAX_HISTORY_TURNS
        from == IF keep > 0 /\ Len(rest) > keep THEN Len(rest) - keep + 1 ELSE 1
    IN  << FirstSystem(history) >> \o SubSeq(rest, from, Len(rest))

\* pushUserMessage(history, message, files)
PushUserMessage(history, m, n) ==
    Append(history, [role |-> "user", content |-> [message |-> m, nfiles |-> n]])

\* pushAssistantMessage(history, text): nothing is pushed for an empty text.
PushAssistantMessage(history, text) ==
    IF text = <<>> THEN history
    ELSE Append(history, [role |-> "assistant", content |-> text])

BridgeErrorDone == << Event("error"), Event("[DONE]") >>

\* The handler up to the upstream call: the user id, the conversation, the
\* SSE headers, the empty-input check, pushUserMessage, request.post(...).
\* history is the array held in conversationStore, so the push is seen there.
BridgeHandle(u, m, n) ==
    /\ pc = "idle"
    /\ userId' = u
    /\ body' = [message |-> m, nfiles |-> n]
    /\ IF m = "" /\ n = 0
       THEN /\ conversationStore' =
                  [conversationStore EXCEPT ![u] = GetConversation(conversationStore, u)]
            /\ res' = ResEnd(ResWrite([res EXCEPT !.contentType = "sse"], BridgeErrorDone))
            /\ pc' = "done"
            /\ UNCHANGED call
       ELSE /\ conversationStore' =
                  [conversationStore EXCEPT ![u] =
                      PushUserMessage(GetConversation(conversationStore, u), m, n)]
            /\ res' = [res EXCEPT !.contentType = "sse"]
            /\ call' = "pending"
            /\ pc' = "awaitUpstream"
    /\ closeRegistered' = FALSE
    /\ assistantText' = <<>>
    /\ UNCHANGED <<clientOpen, remaining, delivered, buffer>>
    /\ UNCHANGED <<balancerVars, workerVars, managerVars, launcherVars, storeVars, lockVars, historyVars, uploadVars, ttsVars, mutexVars>>

\* request.post resolves with a response stream: req.on('close') is
\* registered only now; buffer = '', assistantText = ''.
BridgeUpstreamResponds(s) ==
    /\ pc = "awaitUpstream"
    /\ call = "pending"
    /\ call' = "streaming"
    /\ remaining' = s
    /\ delivered' = <<>>
    /\ closeRegistered' = TRUE
    /\ buffer' = <<>>
    /\ assistantText' = <<>>
    /\ pc' = "streaming"
    /\ UNCHANGED <<userId, body, clientOpen, res, conversationStore>>
    /\ UNCHANGED <<balancerVars, workerVars, managerVars, launcherVars, storeVars, lockVars, historyVars, uploadVars, ttsVars, mutexVars>>

\* request.post rejects: catch (error).
BridgeUpstreamRejects ==
    /\ pc = "awaitUpstream"
    /\ call = "pending"
    /\ call' = "rejected"
    /\ res' = ResEnd(ResWrite(res, BridgeErrorDone))
    /\ pc' = "done"
    /\ UNCHANGED <<userId, body, clientOpen, remaining, delivered, buffer>>
    /\ UNCHANGED <<closeRegistered, assistantText, conversationStore>>
    /\ UNCHANGED <<balancerVars, workerVars, managerVars, launcherVars, storeVars, lockVars, historyVars, uploadVars, ttsVars, mutexVars>>

\* response.data.on('data', (chunk) => ...) for a chunk of n bytes.
BridgeOnData(n) ==
    /\ pc = "streaming"
    /\ call = "streaming"
    /\ n \in 1..Len(remaining)
    /\ LET chunk == SubSeq(remaining, 1, n)
           text  == buffer \o Utf8ToString(chunk)
           ev    == BridgeLinesEvents(LinesOf(text))
       IN  /\ remaining' = SubSeq(remaining, n + 1, Len(remaining))
           /\ delivered' = delivered \o chunk
           /\ buffer' = RestOf(text)
           /\ assistantText' = assistantText \o Concat(ChunkContents(ev))
           /\ res' = IF ev = <<>> THEN res ELSE ResWrite(res, ev)
    /\ UNCHANGED <<pc, userId, body, clientOpen, call>>
    /\ UNCHANGED <<closeRegistered, conversationStore>>
    /\ UNCHANGED <<balancerVars, workerVars, managerVars, launcherVars, storeVars, lockVars, historyVars, uploadVars, ttsVars, mutexVars>>

\* response.data.on('end', ...)
BridgeOnEnd ==
    /\ pc = "streaming"
    /\ call = "streaming"
    /\ remaining = <<>>
    /\ call' = "ended"
    /\ conversationStore' =
          [conversationStore EXCEPT ![userId] =
              TruncateConversation(PushAssistantMessage(@, assistantText))]
    /\ res' = ResEnd(ResWrite(res, << Event("done"), Event("[DONE]") >>))
    /\ pc' = "done"
    /\ UNCHANGED <<userId, body, clientOpen, remaining, delivered, buffer>>
    /\ UNCHANGED <<closeRegistered, assistantText>>
    /\ UNCHANGED <<balancerVars, workerVars, managerVars, launcherVars, storeVars, lockVars, historyVars, uploadVars, ttsVars, mutexVars>>

\* response.data.on('error', ...)
BridgeOnError ==
    /\ pc = "streaming"
    /\ call = "streaming"
    /\ call' = "errored"
    /\ res' = ResEnd(ResWrite(res, BridgeErrorDone))
    /\ pc' = "done"
    /\ UNCHANGED <<userId, body, clientOpen, remaining, delivered, buffer>>
    /\ UNCHANGED <<closeRegistered, assistantText, conversationStore>>
    /\ UNCHANGED <<balancerVars, workerVars, managerVars, launcherVars, storeVars, lockVars, historyVars, uploadVars, ttsVars, mutexVars>>

\* The client disconnects.  The listener req.on('close', () =>
\* response.data?.destroy()) runs only if it was registered before.
BridgeOnClose ==
    /\ pc \in {"awaitUpstream", "streaming"}
    /\ clientOpen
    /\ clientOpen' = FALSE
    /\ call' = IF closeRegistered THEN Destroy(call) ELSE call
    /\ pc' = IF closeRegistered /\ call = "streaming" THEN "done" ELSE pc
    /\ UNCHANGED <<userId, body, res, remaining, delivered, buffer>>
    /\ UNCHANGED <<closeRegistered, assistantText, conversationStore>>
    /\ UNCHANGED <<balancerVars, workerVars, managerVars, launcherVars, storeVars, lockVars, historyVars, uploadVars, ttsVars, mutexVars>>

BridgeNext ==
    \/ \E u \in Users, m \in Messages, n \in FileCounts : BridgeHandle(u, m, n)
    \/ \E s \in Streams : BridgeUpstreamResponds(s)
    \/ BridgeUpstreamRejects
    \/ \E n \in 1..Len(remaining) : BridgeOnData(n)
    \/ BridgeOnEnd
    \/ BridgeOnError
    \/ BridgeOnClose

(***************************************************************************)
(*              THE CLUSTER SUPERVISOR (server/process-manager.js)         *)
(*                                                                         *)
(* The state is that of the master after `new ProcessManager(config)` and  *)
(* `start()`.  A worker process is named by its pid, the index of its      *)
(* record in procs.  A process is "alive", "exited" (it is dead and its    *)
(* exit has not been delivered to the master yet) or "reaped" (the exit    *)
(* handlers have run).  Handlers run to completion: everything a handler   *)
(* and the promise continuations it resolves do is one step.               *)
(***************************************************************************)

\* config.workerCount, here a pool of two
workerCount == 2

\* config.basePort || 3001
basePort == 3001

\* config.maxMemoryRestart || 1024 (MB)
maxMemoryRestart == 1024

\* config.maxUptimeRestart || 86400000: the unit of time of the model
maxUptimeRestart == 1

\* Bounds of the model: processes forked in a run, clock ticks, signals.
MaxForks == 4
MaxTime == 2
MaxSignals == 1

Ids == 1..workerCount

\* exitCode of a manager that has not called process.exit
Running == -1

\* A key of this.stats is the workerId of a stats message.  worker.js sends
\* process.env.WORKER_ID, a string; a worker script that reports the ordinal
\* as a number, the type of the keys of this.workers, is the other kind.  A
\* JavaScript Map keeps '1' and 1 apart.  The workers of one run send one
\* kind.
KeyKinds == {"string", "number"}

StatsKeys == {[kind |-> k, v |-> i] : k \in KeyKinds, i \in Ids}

\* the key checkWorkers and the exit handler use: the ordinal, a number
NumKey(id) == [kind |-> "number", v |-> id]

\* stats.memory.rss / 1024 / 1024 of a report: below and above the ceiling
RssValues == {512, 2048}

\* this.stats.get(key) === undefined
NoStats == 0

\* this.workers.get(id) === undefined
NoInfo == [pid |-> 0, startedAt |-> 0, restarts |-> 0]

\* checkWorkers is not running
Idle == [pc |-> "idle", todo |-> <<>>, id |-> 0, pid |-> 0, restarts |-> 0]

Has(seq, x) == \E i \in 1..Len(seq) : seq[i] = x

Without(seq, x) == SelectSeq(seq, LAMBDA y : y # x)

\* A port assignment that is off by one.
PortOfShifted(id) == basePort + id

\* WORKER_PORT: (this.config.basePort + id - 1).toString()
PortOf(id) == basePort + id - 1

\* cluster.fork({ WORKER_ID: id.toString(), WORKER_PORT: ... })
NewProc(id) ==
    [id |-> id, port |-> PortOf(id), st |-> "alive", shutdownSent |-> FALSE]

\* The record of a process whose exit was delivered.
Reaped(proc) == [id |-> proc.id, port |-> proc.port, st |-> "reaped"]

\* The master's state as one record, so that the steps of a handler compose.
Manager ==
    [procs |-> procs, workers |-> workers, order |-> order, stats |-> stats,
     check |-> check, shutdowns |-> shutdowns, exitCode |-> exitCode]

Becomes(m) ==
    /\ procs' = m.procs
    /\ workers' = m.workers
    /\ order' = m.order
    /\ stats' = m.stats
    /\ check' = m.check
    /\ shutdowns' = m.shutdowns
    /\ exitCode' = m.exitCode

\* forkWorker(id): fork, then this.workers.set(id, { worker, pid, startedAt:
\* Date.now(), restarts: 0 }).  Setting a key the map does not hold appends
\* it to the map's order, where a running `for ... of entries()` finds it.
forkWorker(m, id) ==
    LET isNew == ~Has(m.order, id) IN
    [m EXCEPT !.procs = Append(@, NewProc(id)),
              !.workers[id] = [pid |-> Len(m.procs) + 1, startedAt |-> now,
                               restarts |-> 0],
              !.order = IF isNew THEN Append(@, id) ELSE @,
              !.check.todo = IF isNew /\ m.check.pc # "idle"
                             THEN Append(@, id) ELSE @]

\* this.workers.delete(workerId)
deleteWorker(m, id) ==
    [m EXCEPT !.workers[id] = NoInfo,
              !.order = Without(@, id),
              !.check.todo = Without(@, id)]

\* findWorkerIdByPid(pid); 0 stands for null
findWorkerIdByPid(m, pid) ==
    IF \E id \in Ids : m.workers[id].pid = pid
    THEN CHOOSE id \in Ids : m.workers[id].pid = pid
    ELSE 0

\* cluster.on('exit', ...) of setupMaster: a tracked worker that exited is
\* dropped from both maps and forked again.  stats is keyed by the number.
ExitHandler(m, pid) ==
    LET workerId == findWorkerIdByPid(m, pid) IN
    IF workerId # 0
    THEN forkWorker([deleteWorker(m, workerId)
                        EXCEPT !.stats[NumKey(workerId)] = NoStats],
                    workerId)
    ELSE m

\* cluster.on('exit', ...) added by every shutdown(signal):
\* totalWorkers--; if (totalWorkers === 0) process.exit(0)
ShutdownExitListeners(m) ==
    LET counters == [i \in 1..Len(m.shutdowns) |-> m.shutdowns[i] - 1] IN
    [m EXCEPT !.shutdowns = counters,
              !.exitCode = IF \E i \in 1..Len(counters) : counters[i] = 0
                           THEN 0 ELSE @]

\* restartWorker(id) up to its await: info = this.workers.get(id);
\* if (!info) return; info.worker.send({ type: 'shutdown' }); the promise
\* waits for the worker's 'exit' or for the 10 s timer.
restartWorkerBegin(m, id) ==
    LET info == m.workers[id] IN
    IF info.pid = 0
    THEN m
    ELSE [m EXCEPT !.procs[info.pid].shutdownSent = TRUE,
                   !.check = [pc |-> "waiting", todo |-> m.check.todo,
                              id |-> id, pid |-> info.pid,
                              restarts |-> info.restarts]]

\* restartWorker(id) after its await: this.forkWorker(id);
\* this.workers.get(id).restarts = (info.restarts || 0) + 1; checkWorkers
\* then goes on with its loop.
restartWorkerResume(m) ==
    LET f == forkWorker(m, m.check.id) IN
    [f EXCEPT !.workers[m.check.id].restarts = m.check.restarts + 1,
              !.check.pc = "iter"]

\* setupMaster(): for (i = 1..workerCount) forkWorker(i); start() installs
\* the signal handlers.
ManagerInit ==
    /\ procs = [i \in 1..workerCount |-> NewProc(i)]
    /\ workers = [i \in Ids |-> [pid |-> i, startedAt |-> 0, restarts |-> 0]]
    /\ order = [i \in 1..workerCount |-> i]
    /\ stats = [k \in StatsKeys |-> NoStats]
    /\ now = 0
    /\ check = Idle
    /\ shutdowns = <<>>
    /\ exitCode = Running

\* A handler of the master can start: the master runs and is not in the
\* middle of the synchronous part of checkWorkers.
Ready == exitCode = Running /\ check.pc # "iter"

\* Time passes.
Tick ==
    /\ Ready
    /\ now < MaxTime
    /\ now' = now + 1
    /\ UNCHANGED <<procs, workers, order, stats, check, shutdowns, exitCode>>
    /\ UNCHANGED <<balancerVars, chatVars, workerVars, bridgeVars, launcherVars, storeVars, lockVars, historyVars, uploadVars, ttsVars, mutexVars>>

\* A worker process dies on its own (it crashes, or it is killed from outside).
WorkerCrash(p) ==
    /\ Ready
    /\ procs[p].st = "alive"
    /\ procs' = [procs EXCEPT ![p].st = "exited"]
    /\ UNCHANGED <<workers, order, stats, now, check, shutdowns, exitCode>>
    /\ UNCHANGED <<balancerVars, chatVars, workerVars, bridgeVars, launcherVars, storeVars, lockVars, historyVars, uploadVars, ttsVars, mutexVars>>

\* cluster.on('message', ...): if (message.type === 'stats')
\* this.stats.set(message.workerId, message), for a report of process p.
StatsMessage(p, kind, rss) ==
    /\ Ready
    /\ procs[p].st = "alive"
    /\ \A k \in StatsKeys : k.kind # kind => stats[k] = NoStats
    /\ stats' = [stats EXCEPT ![[kind |-> kind, v |-> procs[p].id]] = rss]
    /\ UNCHANGED <<procs, workers, order, now, check, shutdowns, exitCode>>
    /\ UNCHANGED <<balancerVars, chatVars, workerVars, bridgeVars, launcherVars, storeVars, lockVars, historyVars, uploadVars, ttsVars, mutexVars>>

\* The exit of process p is delivered: the worker's 'exit' listeners (the
\* resolve of a restartWorker that waits for p), then the cluster's 'exit'
\* listeners in the order they were added, then the continuation of the
\* restartWorker that was resolved, unless a listener has ended the master.
ClusterExit(p) ==
    /\ Ready
    /\ procs[p].st = "exited"
    /\ Len(procs) + (IF findWorkerIdByPid(Manager, p) # 0 THEN 1 ELSE 0)
                  + (IF check.pc = "waiting" /\ check.pid = p THEN 1 ELSE 0)
         <= MaxForks
    /\ LET resolved == check.pc = "waiting" /\ check.pid = p
           m1 == [Manager EXCEPT !.procs[p] = Reaped(@)]
           m2 == ShutdownExitListeners(ExitHandler(m1, p))
       IN  Becomes(IF resolved /\ m2.exitCode = Running
                   THEN restartWorkerResume(m2) ELSE m2)
    /\ now' = now
    /\ UNCHANGED <<balancerVars, chatVars, workerVars, bridgeVars, launcherVars, storeVars, lockVars, historyVars, uploadVars, ttsVars, mutexVars>>

\* The 10 s timer of restartWorker fires while the promise is pending:
\* if (!info.worker.isDead()) info.worker.kill('SIGKILL'); resolve(); then
\* the continuation of restartWorker.  isDead() is false until the exit was
\* delivered; a process sent SIGKILL is dead.
RestartTimeout ==
    /\ Ready
    /\ check.pc = "waiting"
    /\ Len(procs) + 1 <= MaxForks
    /\ LET m1 == [Manager EXCEPT !.procs[check.pid].st = "exited"]
       IN  Becomes(restartWorkerResume(m1))
    /\ now' = now
    /\ UNCHANGED <<balancerVars, chatVars, workerVars, bridgeVars, launcherVars, storeVars, lockVars, historyVars, uploadVars, ttsVars, mutexVars>>

\* setInterval(() => this.checkWorkers(), 60000): a check starts (one at a
\* time) and iterates this.workers.entries().
CheckWorkers ==
    /\ Ready
    /\ check.pc = "idle"
    /\ check' = [Idle EXCEPT !.pc = "iter", !.todo = order]
    /\ UNCHANGED <<procs, workers, order, stats, now, shutdowns, exitCode>>
    /\ UNCHANGED <<balancerVars, chatVars, workerVars, bridgeVars, launcherVars, storeVars, lockVars, historyVars, uploadVars, ttsVars, mutexVars>>

\* One turn of the loop of checkWorkers: uptime = Date.now() - startedAt;
\* stats = this.stats.get(id); if (stats) { if (rss > maxMemoryRestart)
\* await restartWorker(id) else if (uptime > maxUptimeRestart) await
\* restartWorker(id) }.
CheckWorkersStep ==
    /\ exitCode = Running
    /\ check.pc = "iter"
    /\ IF check.todo = <<>>
       THEN Becomes([Manager EXCEPT !.check = Idle])
       ELSE LET id == Head(check.todo)
                info == workers[id]
                uptime == now - info.startedAt
                rss == stats[NumKey(id)]
                m == [Manager EXCEPT !.check.todo = Tail(@)]
            IN  Becomes(IF rss # NoStats /\ (rss > maxMemoryRestart
                                             \/ uptime > maxUptimeRestart)
                        THEN restartWorkerBegin(m, id) ELSE m)
    /\ now' = now
    /\ UNCHANGED <<balancerVars, chatVars, workerVars, bridgeVars, launcherVars, storeVars, lockVars, historyVars, uploadVars, ttsVars, mutexVars>>

\* shutdown(signal) on SIGTERM or SIGINT: send { type: 'shutdown' } to every
\* tracked worker, totalWorkers = this.workers.size, add an 'exit' listener
\* and the 10 s timer.  worker.js has no handler for the message.
Shutdown ==
    /\ Ready
    /\ Len(shutdowns) < MaxSignals
    /\ procs' = [p \in 1..Len(procs) |->
                   IF \E id \in Ids : workers[id].pid = p
                   THEN [procs[p] EXCEPT !.shutdownSent = TRUE] ELSE procs[p]]
    /\ shutdowns' = Append(shutdowns, Len(order))
    /\ UNCHANGED <<workers, order, stats, now, check, exitCode>>
    /\ UNCHANGED <<balancerVars, chatVars, workerVars, bridgeVars, launcherVars, storeVars, lockVars, historyVars, uploadVars, ttsVars, mutexVars>>

\* The 10 s timer of shutdown fires: process.exit(1)
ShutdownTimeout ==
    /\ Ready
    /\ shutdowns # <<>>
    /\ exitCode' = 1
    /\ UNCHANGED <<procs, workers, order, stats, now, check, shutdowns>>
    /\ UNCHANGED <<balancerVars, chatVars, workerVars, bridgeVars, launcherVars, storeVars, lockVars, historyVars, uploadVars, ttsVars, mutexVars>>

\* The supervisor while no termination signal arrives.
ManagerNext ==
    \/ Tick
    \/ \E p \in 1..Len(procs) : WorkerCrash(p)
    \/ \E p \in 1..Len(procs), k \in KeyKinds, rss \in RssValues :
          StatsMessage(p, k, rss)
    \/ \E p \in 1..Len(procs) : ClusterExit(p)
    \/ RestartTimeout
    \/ CheckWorkers
    \/ CheckWorkersStep

\* The supervisor around a termination signal.  The clock stands still: a
\* shutdown lasts at most the 10 s of its timer, the uptime ceiling is 24 h.
ShutdownNext ==
    \/ \E p \in 1..Len(procs) : WorkerCrash(p)
    \/ \E p \in 1..Len(procs), k \in KeyKinds, rss \in RssValues :
          StatsMessage(p, k, rss)
    \/ \E p \in 1..Len(procs) : ClusterExit(p)
    \/ RestartTimeout
    \/ CheckWorkers
    \/ CheckWorkersStep
    \/ Shutdown
    \/ ShutdownTimeout

(***************************************************************************)
(*        THE LAUNCHERS (server/start.js and start-cluster.js)             *)
(*                                                                         *)
(* A launcher spawns the balancer and forks the workers as child           *)
(* processes and stops them on SIGTERM or SIGINT.  signalLog is the        *)
(* history of the signals: those the launcher received and the kill()      *)
(* calls it made, in order.                                                *)
(***************************************************************************)

\* parseInt(process.env.WORKER_COUNT) || 4, here two workers
WORKER_COUNT == 2

Scripts == {"start.js", "start-cluster.js"}

\* Every worker is given the base port.
WorkerPortFixed(s, i) == IF s = "start.js" THEN 3001 ELSE 3000

\* const workerPort = basePort + i - 1 (start.js, basePort = 3001);
\* const workerPort = 3000 + i (start-cluster.js)
WorkerPort(s, i) == IF s = "start.js" THEN 3001 + i - 1 ELSE 3000 + i

\* fork('worker.js', [], { env: { WORKER_ID: i, WORKER_PORT: workerPort } })
ForkedWorker(s, i) ==
    [id |-> i, port |-> WorkerPort(s, i), st |-> "running", signalled |-> FALSE]

Signals == {"SIGTERM", "SIGINT"}

\* exit codes of the balancer process
ExitCodes == {"0", "1"}

Received(sig) == [to |-> "launcher", id |-> 0, sig |-> sig]

KillBalancer == [to |-> "balancer", id |-> 0, sig |-> "SIGTERM"]

KillWorker(i) == [to |-> "worker", id |-> i, sig |-> "SIGTERM"]

\* worker.kill('SIGTERM') for every entry of workers, in order
KillWorkers(n) == [i \in 1..n |-> KillWorker(i)]

NoTimers == [workers |-> 0, exit |-> 0, final |-> 0]

LauncherInit ==
    /\ script = "none"
    /\ phase = "init"
    /\ loadBalancer = [st |-> "none", killed |-> FALSE]
    /\ children = <<>>
    /\ timers = NoTimers
    /\ signalLog = <<>>
    /\ launcherExit = "running"

\* The number of shutdown(signal) calls made so far.
ShutdownCalls == Len(SelectSeq(signalLog, LAMBDA e : e.to = "launcher"))

\* start.js up to its first wait: without SILICONFLOW_API_KEY, or with port
\* 3000 in use, process.exit(1); else spawn simple-balancer.js and wait 3 s.
\* start-cluster.js spawns load-balancer.js at once and sets a 2 s timer.
Launch(s, keySet, portUsed) ==
    /\ launcherExit = "running"
    /\ phase = "init"
    /\ script' = s
    /\ IF s = "start.js" /\ (~keySet \/ portUsed)
       THEN /\ launcherExit' = "1"
            /\ UNCHANGED <<phase, loadBalancer>>
       ELSE /\ phase' = "grace"
            /\ loadBalancer' = [st |-> "running", killed |-> FALSE]
            /\ UNCHANGED launcherExit
    /\ UNCHANGED <<children, timers, signalLog>>
    /\ UNCHANGED <<balancerVars, chatVars, workerVars, bridgeVars, managerVars, storeVars, lockVars, historyVars, uploadVars, ttsVars, mutexVars>>

\* start.js: the 3 s wait is over, the loop over the workers begins.
\* start-cluster.js: the 2 s timer fires: every worker is forked and the
\* signal handlers are installed.
GraceElapsed ==
    /\ launcherExit = "running"
    /\ phase = "grace"
    /\ IF script = "start.js"
       THEN /\ phase' = "forking"
            /\ UNCHANGED children
       ELSE /\ phase' = "serving"
            /\ children' = [i \in 1..WORKER_COUNT |-> ForkedWorker(script, i)]
    /\ UNCHANGED <<script, loadBalancer, timers, signalLog, launcherExit>>
    /\ UNCHANGED <<balancerVars, chatVars, workerVars, bridgeVars, managerVars, storeVars, lockVars, historyVars, uploadVars, ttsVars, mutexVars>>

\* start.js: one turn of the loop: fork worker i, push it, wait 1 s; after
\* the last turn the signal handlers are installed.
ForkNext ==
    /\ launcherExit = "running"
    /\ phase = "forking"
    /\ IF Len(children) < WORKER_COUNT
       THEN /\ children' = Append(children,
                                  ForkedWorker(script, Len(children) + 1))
            /\ UNCHANGED phase
       ELSE /\ phase' = "serving"
            /\ UNCHANGED children
    /\ UNCHANGED <<script, loadBalancer, timers, signalLog, launcherExit>>
    /\ UNCHANGED <<balancerVars, chatVars, workerVars, bridgeVars, managerVars, storeVars, lockVars, historyVars, uploadVars, ttsVars, mutexVars>>

\* SIGTERM or SIGINT reaches the launcher.  Before the handlers are installed
\* the signal ends the launcher.  shutdown of start.js: kill the balancer
\* (if (loadBalancer && !loadBalancer.killed)), set the 1 s timer.  shutdown
\* of start-cluster.js: kill every worker, set the 5 s timer.
Signal(sig) ==
    /\ launcherExit = "running"
    /\ phase # "init"
    /\ ShutdownCalls < MaxSignals
    /\ IF phase # "serving"
       THEN /\ launcherExit' = "signal"
            /\ signalLog' = Append(signalLog, Received(sig))
            /\ UNCHANGED <<loadBalancer, children, timers>>
       ELSE IF script = "start.js"
       THEN /\ signalLog' = signalLog \o <<Received(sig)>> \o
                              (IF loadBalancer.killed THEN <<>>
                               ELSE <<KillBalancer>>)
            /\ loadBalancer' = [loadBalancer EXCEPT !.killed = TRUE]
            /\ timers' = [timers EXCEPT !.workers = @ + 1]
            /\ UNCHANGED <<children, launcherExit>>
       ELSE /\ signalLog' = signalLog \o <<Received(sig)>> \o
                              KillWorkers(Len(children))
            /\ children' = [i \in 1..Len(children) |->
                              [children[i] EXCEPT !.signalled = TRUE]]
            /\ timers' = [timers EXCEPT !.final = @ + 1]
            /\ UNCHANGED <<loadBalancer, launcherExit>>
    /\ UNCHANGED <<script, phase>>
    /\ UNCHANGED <<balancerVars, chatVars, workerVars, bridgeVars, managerVars, storeVars, lockVars, historyVars, uploadVars, ttsVars, mutexVars>>

\* start.js: the 1 s timer of shutdown fires: kill every worker, set the
\* 3 s timer.
WorkersTimer ==
    /\ launcherExit = "running"
    /\ timers.workers > 0
    /\ signalLog' = signalLog \o KillWorkers(Len(children))
    /\ children' = [i \in 1..Len(children) |->
                      [children[i] EXCEPT !.signalled = TRUE]]
    /\ timers' = [timers EXCEPT !.workers = @ - 1, !.exit = @ + 1]
    /\ UNCHANGED <<script, phase, loadBalancer, launcherExit>>
    /\ UNCHANGED <<balancerVars, chatVars, workerVars, bridgeVars, managerVars, storeVars, lockVars, historyVars, uploadVars, ttsVars, mutexVars>>

\* start.js: the 3 s timer fires: process.exit(0)
ExitTimer ==
    /\ launcherExit = "running"
    /\ timers.exit > 0
    /\ launcherExit' = "0"
    /\ UNCHANGED <<script, phase, loadBalancer, children, timers, signalLog>>
    /\ UNCHANGED <<balancerVars, chatVars, workerVars, bridgeVars, managerVars, storeVars, lockVars, historyVars, uploadVars, ttsVars, mutexVars>>

\* start-cluster.js: the 5 s timer of shutdown fires:
\* loadBalancer.kill('SIGTERM'); process.exit(0)
FinalTimer ==
    /\ launcherExit = "running"
    /\ timers.final > 0
    /\ signalLog' = Append(signalLog, KillBalancer)
    /\ loadBalancer' = [loadBalancer EXCEPT !.killed = TRUE]
    /\ launcherExit' = "0"
    /\ UNCHANGED <<script, phase, children, timers>>
    /\ UNCHANGED <<balancerVars, chatVars, workerVars, bridgeVars, managerVars, storeVars, lockVars, historyVars, uploadVars, ttsVars, mutexVars>>

\* The balancer process exits (on its own or after the signal).  start.js
\* logs it; start-cluster.js calls process.exit(code).
BalancerExits(code) ==
    /\ launcherExit = "running"
    /\ loadBalancer.st = "running"
    /\ loadBalancer' = [loadBalancer EXCEPT !.st = "exited"]
    /\ launcherExit' = IF script = "start-cluster.js" THEN code
                       ELSE launcherExit
    /\ UNCHANGED <<script, phase, children, timers, signalLog>>
    /\ UNCHANGED <<balancerVars, chatVars, workerVars, bridgeVars, managerVars, storeVars, lockVars, historyVars, uploadVars, ttsVars, mutexVars>>

\* A worker process exits (on its own or after the signal); both launchers
\* at most log it.
ChildExits(i) ==
    /\ launcherExit = "running"
    /\ children[i].st = "running"
    /\ children' = [children EXCEPT ![i].st = "exited"]
    /\ UNCHANGED <<script, phase, loadBalancer, timers, signalLog, launcherExit>>
    /\ UNCHANGED <<balancerVars, chatVars, workerVars, bridgeVars, managerVars, storeVars, lockVars, historyVars, uploadVars, ttsVars, mutexVars>>

LauncherNext ==
    \/ \E s \in Scripts, keySet \in BOOLEAN, portUsed \in BOOLEAN :
          Launch(s, keySet, portUsed)
    \/ GraceElapsed
    \/ ForkNext
    \/ \E sig \in Signals : Signal(sig)
    \/ WorkersTimer
    \/ ExitTimer
    \/ FinalTimer
    \/ \E code \in ExitCodes : BalancerExits(code)
    \/ \E i \in 1..Len(children) : ChildExits(i)

(***************************************************************************)
(*                 WORKER: THE SESSION STORE AND ITS ROUTES                *)
(***************************************************************************)

\* Requests the worker serves in a run, files it stores, uploads whose body
\* is being read at one time, and the hours the clock advances.
MaxWorkerRequests == 3

MaxFiles == 2

MaxUploads == 1

MaxHours == 2

\* setInterval(..., 3600000): the period of the sweep, in milliseconds
SweepInterval == 3600000

\* The x-user-id header is missing (or empty, which is falsy as well).
Absent == "absent"

\* The identifiers clients of this worker chose themselves.
Clients == {"u1"}

\* The routes that read or write the files of a session, and the routes
\* the idle sweep is explored with: "activity" stands for the chat and tts
\* routes, which call updateActivity.
UploadRoutes == {"files", "upload", "uploadMultiple"}

SweepRoutes == {"files", "activity"}

\* The files of a multipart body, as multer describes them after its filter:
\* file.originalname decoded and file.mimetype.
Uploads == { [name |-> "a.txt", type |-> "text/plain"],
             [name |-> "b.png", type |-> "image/png"] }

\* Bodies by route: upload.single('file') sees at most one file.
Payloads(route) ==
    CASE route = "upload" -> {<<>>} \cup { <<f>> : f \in Uploads }
      [] route = "uploadMultiple" ->
            {<<>>} \cup { p \in Uploads \X Uploads : p[1] # p[2] }
      [] OTHER -> {<<>>}

NoReq == [route |-> "none"]

NoReply == [route |-> "none"]

StoreInit ==
    /\ dateNow = 0
    /\ uuids = 0
    /\ cur = NoReq
    /\ pending = <<>>
    /\ reply = NoReply
    /\ responded = [u \in UserIds |-> <<>>]
    /\ fileSeq = 0

\* No handler is in the middle of its synchronous run.
StoreReady == cur = NoReq

\* const fileInfo = { id: file.filename, name: originalName, type: mimeType,
\* ..., uploadedAt: new Date().toISOString() }; file.filename is the name
\* generateFileName made, `${Date.now()}-${randomBytes}${ext}`, modelled by
\* its ordinal k.
FileInfo(file, k) == [id |-> k, name |-> file.name, type |-> file.type]

FileInfos(files, k) == [i \in 1..Len(files) |-> FileInfo(files[i], k + i)]

\* The session middleware, app.use(async (req, res, next) => ...), for a
\* request whose x-user-id header is h: the counters, the identifier taken
\* from the header or generated and returned in X-User-ID, the session looked
\* up or created, next().  A client sends an identifier of its own or one a
\* response gave it.
Middleware(h, route, files) ==
    /\ StoreReady
    /\ workerStats.requests < MaxWorkerRequests
    /\ h = Absent => uuids < MaxUuids
    /\ h # Absent => h \in Clients \cup { Uuid(k) : k \in 1..uuids }
    /\ route \in {"upload", "uploadMultiple"} =>
          /\ Len(pending) < MaxUploads
          /\ fileSeq + Len(files) <= MaxFiles
    /\ LET uid == IF h = Absent THEN Uuid(uuids + 1) ELSE h
       IN  /\ cur' = [route |-> route, header |-> h, userId |-> uid,
                      xUserId |-> IF h = Absent THEN uid ELSE "none",
                      files |-> files]
           /\ sessions' = ResolveSession(sessions, uid)
    /\ uuids' = IF h = Absent THEN uuids + 1 ELSE uuids
    /\ workerStats' = [workerStats EXCEPT !.requests = @ + 1,
                                          !.activeConnections = @ + 1]
    /\ UNCHANGED <<dateNow, pending, reply, responded, fileSeq>>
    /\ UNCHANGED <<isClientConnected, axiosResponse, timeoutId>>
    /\ UNCHANGED <<balancerVars, chatVars, bridgeVars, managerVars, launcherVars, lockVars, historyVars, uploadVars, ttsVars, mutexVars>>

\* The response of a session route and the 'finish' listener of the
\* middleware (activeConnections--).
Respond(r) ==
    /\ reply' = r
    /\ workerStats' = [workerStats EXCEPT !.activeConnections = @ - 1]

\* app.get('/api/files'): res.json({ success: true,
\* count: req.session.files.length, files: req.session.files })
FilesRoute ==
    /\ cur.route = "files"
    /\ Respond([route |-> "files", status |-> 200, userId |-> cur.userId,
                count |-> Len(sessions[cur.userId].files),
                files |-> sessions[cur.userId].files])
    /\ cur' = NoReq
    /\ UNCHANGED <<dateNow, uuids, pending, responded, fileSeq>>
    /\ UNCHANGED <<isClientConnected, axiosResponse, timeoutId, sessions>>
    /\ UNCHANGED <<balancerVars, chatVars, bridgeVars, managerVars, launcherVars, lockVars, historyVars, uploadVars, ttsVars, mutexVars>>

\* The chat and tts routes as far as the store is concerned:
\* req.session.updateActivity(); await sessionManager.setSession(req.userId,
\* req.session); the response follows.
ActivityRoute ==
    /\ cur.route = "activity"
    /\ sessions' = [sessions EXCEPT ![cur.userId] = UpdateActivity(@)]
    /\ Respond([route |-> "activity", status |-> 200])
    /\ cur' = NoReq
    /\ UNCHANGED <<dateNow, uuids, pending, responded, fileSeq>>
    /\ UNCHANGED <<isClientConnected, axiosResponse, timeoutId>>
    /\ UNCHANGED <<balancerVars, chatVars, bridgeVars, managerVars, launcherVars, lockVars, historyVars, uploadVars, ttsVars, mutexVars>>

\* upload.single('file') / upload.array('files', 10): multer starts to read
\* the multipart body and to write the files; other requests are served
\* meanwhile.
UploadBegin ==
    /\ cur.route \in {"upload", "uploadMultiple"}
    /\ pending' = Append(pending, cur)
    /\ cur' = NoReq
    /\ UNCHANGED <<dateNow, uuids, reply, responded, fileSeq>>
    /\ UNCHANGED <<isClientConnected, axiosResponse, timeoutId, sessions, workerStats>>
    /\ UNCHANGED <<balancerVars, chatVars, bridgeVars, managerVars, launcherVars, lockVars, historyVars, uploadVars, ttsVars, mutexVars>>

\* multer is done with the body of pending upload i.  When it failed
\* (fileFilter, limits, disk) the error goes to next(err) and the response
\* is a 500; otherwise the handler of app.post('/api/upload') or of
\* '/api/upload/multiple' runs: 400 without a file, else addFile for every
\* file, setSession, and the descriptors in the response.  req.session is the
\* object the store holds under req.userId (no route replaces or deletes a
\* session), so setSession stores the object it already holds.
UploadDone(i, ok) ==
    /\ StoreReady
    /\ i \in 1..Len(pending)
    /\ LET q == pending[i]
           infos == FileInfos(q.files, fileSeq)
       IN  IF ~ok
           THEN /\ Respond([route |-> q.route, status |-> 500])
                /\ UNCHANGED <<sessions, responded, fileSeq>>
           ELSE IF q.files = <<>>
           THEN /\ Respond([route |-> q.route, status |-> 400])
                /\ UNCHANGED <<sessions, responded, fileSeq>>
           ELSE /\ sessions' = [sessions EXCEPT ![q.userId] = AddFiles(@, infos)]
                /\ fileSeq' = fileSeq + Len(q.files)
                /\ responded' = [responded EXCEPT ![q.userId] = @ \o infos]
                /\ Respond([route |-> q.route, status |-> 200])
    /\ pending' = [k \in 1..(Len(pending) - 1) |->
                      IF k < i THEN pending[k] ELSE pending[k + 1]]
    /\ UNCHANGED <<dateNow, uuids, cur>>
    /\ UNCHANGED <<isClientConnected, axiosResponse, timeoutId>>
    /\ UNCHANGED <<balancerVars, chatVars, bridgeVars, managerVars, launcherVars, lockVars, historyVars, uploadVars, ttsVars, mutexVars>>

\* The body of the hourly sweep: try { const sessions = await
\* redisStore.getAllSessions(); for (...) { const session = new
\* UserSession(sessionData.id, sessionData.workerId); if (await
\* session.cleanupInactive()) await sessionManager.deleteSession(session.id) }
\* } catch (error) { console.error(...) }.  The worker declares no
\* redisStore, so the first statement throws a ReferenceError, the catch
\* logs it and the store is as it was.
SweepSessions(ss) == ss

\* setInterval(async () => { ... }, 3600000) fires: an hour has passed on
\* the worker's clock since the last run (or since the start) and the body
\* of the sweep runs.
Sweep ==
    /\ StoreReady
    /\ dateNow < MaxHours * SweepInterval
    /\ dateNow' = dateNow + SweepInterval
    /\ sessions' = SweepSessions(sessions)
    /\ UNCHANGED <<uuids, cur, pending, reply, responded, fileSeq>>
    /\ UNCHANGED <<isClientConnected, axiosResponse, timeoutId, workerStats>>
    /\ UNCHANGED <<balancerVars, chatVars, bridgeVars, managerVars, launcherVars, lockVars, historyVars, uploadVars, ttsVars, mutexVars>>

\* The sweep leaves the store as it was, so the upload routes are explored
\* without the clock and the sweep without the uploads.
StoreNext ==
    \/ \E route \in UploadRoutes :
          \E h \in UserIds \cup {Absent}, files \in Payloads(route) :
              Middleware(h, route, files)
    \/ FilesRoute
    \/ UploadBegin
    \/ \E i \in 1..Len(pending), ok \in BOOLEAN : UploadDone(i, ok)

SweepNext ==
    \/ \E route \in SweepRoutes :
          \E h \in UserIds \cup {Absent} : Middleware(h, route, <<>>)
    \/ FilesRoute
    \/ ActivityRoute
    \/ Sweep


(***************************************************************************)
(*             WORKER: initUploadDirs AND THE LOCK MANAGER                 *)
(***************************************************************************)

\* The worker processes behind the balancer.  Each runs worker.js, so each
\* has a lockManager of its own (const lockManager = new LockManager()),
\* and all of them use the same UPLOAD_BASE_DIR.
LockWorkers == 1..NumWorkers

LockInit ==
    /\ locks = [w \in LockWorkers |-> FALSE]
    /\ initPc = [w \in LockWorkers |-> "start"]
    /\ uploadDir = FALSE

\* Positions of initUploadDirs between acquire('upload_dirs') returning and
\* release().
Inside == {"acquired", "missing", "exists", "made"}

\* const release = await lockManager.acquire('upload_dirs'): one pass of the
\* loop of acquire in process w.  The key is taken when this process's map
\* does not hold it; otherwise the loop sleeps 10 ms and tries again.
Acquire(w) ==
    /\ initPc[w] = "start"
    /\ ~locks[w]
    /\ locks' = [locks EXCEPT ![w] = TRUE]
    /\ initPc' = [initPc EXCEPT ![w] = "acquired"]
    /\ UNCHANGED uploadDir
    /\ UNCHANGED <<balancerVars, chatVars, workerVars, bridgeVars, managerVars, launcherVars,
                 storeVars, historyVars, uploadVars, ttsVars, mutexVars>>

\* await fs.stat(UPLOAD_BASE_DIR).catch(() => false)
Stat(w) ==
    /\ initPc[w] = "acquired"
    /\ initPc' = [initPc EXCEPT ![w] = IF uploadDir THEN "exists" ELSE "missing"]
    /\ UNCHANGED <<locks, uploadDir>>
    /\ UNCHANGED <<balancerVars, chatVars, workerVars, bridgeVars, managerVars, launcherVars,
                 storeVars, historyVars, uploadVars, ttsVars, mutexVars>>

\* await fs.mkdir(UPLOAD_BASE_DIR, { recursive: true })
Mkdir(w) ==
    /\ initPc[w] = "missing"
    /\ uploadDir' = TRUE
    /\ initPc' = [initPc EXCEPT ![w] = "made"]
    /\ UNCHANGED locks
    /\ UNCHANGED <<balancerVars, chatVars, workerVars, bridgeVars, managerVars, launcherVars,
                 storeVars, historyVars, uploadVars, ttsVars, mutexVars>>

\* finally { release() }: this.locks.delete(key)
Release(w) ==
    /\ initPc[w] \in {"exists", "made"}
    /\ locks' = [locks EXCEPT ![w] = FALSE]
    /\ initPc' = [initPc EXCEPT ![w] = "done"]
    /\ UNCHANGED uploadDir
    /\ UNCHANGED <<balancerVars, chatVars, workerVars, bridgeVars, managerVars, launcherVars,
                 storeVars, historyVars, uploadVars, ttsVars, mutexVars>>

\* The process of worker w ends and the supervisor forks it again: the new
\* process has an empty lock map and runs initUploadDirs() from the top.
Refork(w) ==
    /\ initPc[w] # "start"
    /\ locks' = [locks EXCEPT ![w] = FALSE]
    /\ initPc' = [initPc EXCEPT ![w] = "start"]
    /\ UNCHANGED uploadDir
    /\ UNCHANGED <<balancerVars, chatVars, workerVars, bridgeVars, managerVars, launcherVars,
                 storeVars, historyVars, uploadVars, ttsVars, mutexVars>>

LockNext ==
    \E w \in LockWorkers :
        \/ Acquire(w)
        \/ Stat(w)
        \/ Mkdir(w)
        \/ Release(w)
        \/ Refork(w)

(***************************************************************************)
(*      openwebui-bridge.js: CONVERSATION HISTORIES OF OVERLAPPING         *)
(*      /api/chat/stream REQUESTS AND /api/session/reset                   *)
(***************************************************************************)

\* Chat requests accepted in a run and chat requests open at one time.
MaxChats == 2

\* Chat requests accepted in a run in which one user sends them all.
MaxOverlapChats == 3

MaxOpenChats == 2

ChatSlots == 1..MaxOpenChats

\* A history is an array object: conversationStore holds a reference to it
\* and so does the `history` constant of every request that called
\* getConversation while it was stored.  At most one array per user and one
\* per open request is referenced at a time.
HeapSlots == 1..(Cardinality(Users) + MaxOpenChats)

\* An array no longer referenced.
Free == <<>>

NoChat == [st |-> "none"]

NoResponse == [op |-> "none"]

HistoryInit ==
    /\ heap = [a \in HeapSlots |-> Free]
    /\ storeRef = [u \in Users |-> 0]
    /\ chats = [r \in ChatSlots |-> NoChat]
    /\ chatCount = 0
    /\ pushed = [u \in Users |-> <<>>]
    /\ replies = NoResponse

\* conversationStore.get(u), NoConversation for a user without an entry.
StoredIn(h, sr, u) == IF sr[u] = 0 THEN NoConversation ELSE h[sr[u]]

Stored(u) == StoredIn(heap, storeRef, u)

\* The arrays referenced by the store sr and the open requests cs.
Refs(sr, cs) ==
    ({ sr[u] : u \in Users } \ {0})
        \cup { cs[r].history : r \in { q \in ChatSlots : cs[q].st # "none" } }

\* A new array: the first slot not referenced.
Alloc(sr, cs) ==
    CHOOSE a \in HeapSlots :
        /\ a \notin Refs(sr, cs)
        /\ \A b \in 1..(a - 1) : b \in Refs(sr, cs)

\* Arrays nothing refers to are collected.
Collect(h, sr, cs) ==
    [a \in HeapSlots |-> IF a \in Refs(sr, cs) THEN h[a] ELSE Free]

ResetMark == [role |-> "reset"]

ChatReceived(u) == [op |-> "received", user |-> u]

ChatResponse(u, ok) == [op |-> "chat", user |-> u, ok |-> ok]

ResetResponse(u) ==
    [op |-> "reset", user |-> u, ok |-> TRUE,
     again |-> replies.op = "reset" /\ replies.user = u]

\* The reset stores an empty list.
ResetHistoryEmpty == <<>>

\* [{ role: 'system', content: DEFAULT_SYSTEM_PROMPT }] of /api/session/reset
ResetHistory == << SystemEntry >>

\* app.post('/api/chat/stream') up to request.post(...): getConversation
\* (which stores a new array for a user without one), the empty-input check,
\* pushUserMessage on the stored array, truncateConversation for the list
\* sent upstream.  The message of the n-th request is n.
ChatStream(u, empty) ==
    /\ \E r \in ChatSlots :
          /\ chats[r] = NoChat
          /\ \A q \in 1..(r - 1) : chats[q] # NoChat
          /\ LET n == chatCount + 1
                 a == IF storeRef[u] = 0 THEN Alloc(storeRef, chats) ELSE storeRef[u]
                 history == GetConversation([v \in Users |-> Stored(v)], u)
             IN  /\ storeRef' = [storeRef EXCEPT ![u] = a]
                 /\ IF empty
                    THEN /\ heap' = [heap EXCEPT ![a] = history]
                         /\ chats' = chats
                         /\ pushed' = pushed
                         /\ replies' = ChatResponse(u, FALSE)
                    ELSE /\ heap' = [heap EXCEPT ![a] = PushUserMessage(history, n, 0)]
                         /\ chats' = [chats EXCEPT ![r] =
                                [st |-> "pending", user |-> u, history |-> a, n |-> n,
                                 messages |-> TruncateConversation(
                                                  PushUserMessage(history, n, 0))]]
                         /\ pushed' = [pushed EXCEPT ![u] = PushUserMessage(@, n, 0)]
                         /\ replies' = ChatReceived(u)
    /\ chatCount' = chatCount + 1
    /\ UNCHANGED <<balancerVars, chatVars, workerVars, bridgeVars, managerVars, launcherVars,
                 storeVars, lockVars, uploadVars, ttsVars, mutexVars>>

\* request.post resolves with the response stream; the listeners are set.
ChatUpstreamResponds(r) ==
    /\ chats[r].st = "pending"
    /\ chats' = [chats EXCEPT ![r] = [st |-> "streaming", user |-> chats[r].user,
                                      history |-> chats[r].history, n |-> chats[r].n]]
    /\ UNCHANGED <<heap, storeRef, chatCount, pushed, replies>>
    /\ UNCHANGED <<balancerVars, chatVars, workerVars, bridgeVars, managerVars, launcherVars,
                 storeVars, lockVars, uploadVars, ttsVars, mutexVars>>

\* request.post rejects: the catch writes the error event and [DONE].
ChatUpstreamRejects(r) ==
    /\ chats[r].st = "pending"
    /\ chats' = [chats EXCEPT ![r] = NoChat]
    /\ heap' = Collect(heap, storeRef, chats')
    /\ replies' = ChatResponse(chats[r].user, FALSE)
    /\ UNCHANGED <<storeRef, chatCount, pushed>>
    /\ UNCHANGED <<balancerVars, chatVars, workerVars, bridgeVars, managerVars, launcherVars,
                 storeVars, lockVars, uploadVars, ttsVars, mutexVars>>

\* response.data.on('end'): pushAssistantMessage(history, assistantText) on
\* the array this request got from getConversation, then
\* conversationStore.set(userId, truncateConversation(history)), a new array.
\* The text of the n-th request is <<n>>, or empty when no chunk had content.
ChatOnEnd(r, hasText) ==
    /\ chats[r].st = "streaming"
    /\ LET u == chats[r].user
           a == chats[r].history
           history == PushAssistantMessage(heap[a], IF hasText THEN << chats[r].n >> ELSE <<>>)
           open == [chats EXCEPT ![r] = NoChat]
           b == Alloc([storeRef EXCEPT ![u] = 0], open)
           sr == [storeRef EXCEPT ![u] = b]
       IN  /\ chats' = open
           /\ storeRef' = sr
           /\ heap' = Collect([[heap EXCEPT ![a] = history]
                                  EXCEPT ![b] = TruncateConversation(history)], sr, open)
           /\ pushed' = [pushed EXCEPT ![u] =
                  PushAssistantMessage(@, IF hasText THEN << chats[r].n >> ELSE <<>>)]
           /\ replies' = ChatResponse(u, TRUE)
    /\ UNCHANGED chatCount
    /\ UNCHANGED <<balancerVars, chatVars, workerVars, bridgeVars, managerVars, launcherVars,
                 storeVars, lockVars, uploadVars, ttsVars, mutexVars>>

\* response.data.on('error'): the error event and [DONE]; the history keeps
\* the user message and the store is not written.
ChatOnError(r) ==
    /\ chats[r].st = "streaming"
    /\ chats' = [chats EXCEPT ![r] = NoChat]
    /\ heap' = Collect(heap, storeRef, chats')
    /\ replies' = ChatResponse(chats[r].user, FALSE)
    /\ UNCHANGED <<storeRef, chatCount, pushed>>
    /\ UNCHANGED <<balancerVars, chatVars, workerVars, bridgeVars, managerVars, launcherVars,
                 storeVars, lockVars, uploadVars, ttsVars, mutexVars>>

\* req.on('close'): response.data.destroy(); no 'end' follows and nobody is
\* left to answer.
ChatOnClose(r) ==
    /\ chats[r].st = "streaming"
    /\ chats' = [chats EXCEPT ![r] = NoChat]
    /\ heap' = Collect(heap, storeRef, chats')
    /\ UNCHANGED <<storeRef, chatCount, pushed, replies>>
    /\ UNCHANGED <<balancerVars, chatVars, workerVars, bridgeVars, managerVars, launcherVars,
                 storeVars, lockVars, uploadVars, ttsVars, mutexVars>>

\* app.post('/api/session/reset'): conversationStore.set(userId, [system]);
\* res.json({ success: true, ... })
SessionReset(u) ==
    /\ LET b == Alloc([storeRef EXCEPT ![u] = 0], chats)
           sr == [storeRef EXCEPT ![u] = b]
       IN  /\ storeRef' = sr
           /\ heap' = Collect([heap EXCEPT ![b] = ResetHistory], sr, chats)
    /\ replies' = ResetResponse(u)
    /\ pushed' = [pushed EXCEPT ![u] = << ResetMark >>]
    /\ UNCHANGED <<chats, chatCount>>
    /\ UNCHANGED <<balancerVars, chatVars, workerVars, bridgeVars, managerVars, launcherVars,
                 storeVars, lockVars, uploadVars, ttsVars, mutexVars>>

HistoryNext ==
    \/ \E u \in Users, empty \in BOOLEAN :
          chatCount < MaxChats /\ ChatStream(u, empty)
    \/ \E r \in ChatSlots : ChatUpstreamResponds(r)
    \/ \E r \in ChatSlots : ChatUpstreamRejects(r)
    \/ \E r \in ChatSlots, hasText \in BOOLEAN : ChatOnEnd(r, hasText)
    \/ \E r \in ChatSlots : ChatOnError(r)
    \/ \E r \in ChatSlots : ChatOnClose(r)
    \/ \E u \in Users : SessionReset(u)

\* The user whose requests overlap.
Overlapper == {"u1"}

\* The same handlers when every request comes from one user.
OverlapNext ==
    \/ \E u \in Overlapper, empty \in BOOLEAN :
          chatCount < MaxOverlapChats /\ ChatStream(u, empty)
    \/ \E r \in ChatSlots : ChatUpstreamResponds(r)
    \/ \E r \in ChatSlots : ChatUpstreamRejects(r)
    \/ \E r \in ChatSlots, hasText \in BOOLEAN : ChatOnEnd(r, hasText)
    \/ \E r \in ChatSlots : ChatOnError(r)
    \/ \E r \in ChatSlots : ChatOnClose(r)
    \/ \E u \in Overlapper : SessionReset(u)

(***************************************************************************)
(*        WORKER: THE UPLOAD FILTER, THE STORAGE AND cleanupInactive       *)
(***************************************************************************)

\* String.prototype.toLowerCase() on the letters file names are made of here.
LowerChar(c) ==
    CASE c = "P" -> "p" [] c = "D" -> "d" [] c = "F" -> "f"
      [] c = "J" -> "j" [] c = "G" -> "g" [] OTHER -> c

ToLowerCase(str) == [i \in 1..Len(str) |-> LowerChar(str[i])]

\* path.extname(name) for a name without directories: from the last dot on,
\* '' when there is no dot or the only dot is the first character.
ExtName(name) ==
    LET dots == { i \in 1..Len(name) : name[i] = "." } IN
    IF dots = {} THEN <<>>
    ELSE LET d == CHOOSE i \in dots : \A j \in dots : j <= i IN
         IF d = 1 THEN <<>> ELSE SubSeq(name, d, Len(name))

\* const FILE_TYPE_MAP = { 'image/jpeg': 'images', ... }
FILE_TYPE_MAP ==
    [m \in {"image/jpeg", "image/jpg", "image/png", "image/gif", "image/webp"}
        |-> "images"]
    @@ [m \in {"application/pdf"} |-> "pdfs"]
    @@ [m \in {"application/vnd.openxmlformats-officedocument.wordprocessingml.document",
               "application/msword", "application/vnd.ms-word", "application/word",
               "text/plain", "text/markdown", "text/html",
               "application/octet-stream"} |-> "others"]
    @@ [m \in {"audio/mpeg", "audio/wav", "audio/ogg", "audio/webm"} |-> "audio"]

\* FILE_TYPE_MAP[mimeType] is truthy.  The MIME type multer hands over has
\* the form type/subtype or is empty, so no inherited property is hit.
InFileTypeMap(mimeType) == mimeType \in DOMAIN FILE_TYPE_MAP

\* const supportedExtensions = { '.docx': ..., ... } inside fileFilter
ExtensionTypes ==
    (<<".", "d", "o", "c", "x">> :>
         "application/vnd.openxmlformats-officedocument.wordprocessingml.document")
    @@ (<<".", "d", "o", "c">> :> "application/msword")
    @@ (<<".", "p", "d", "f">> :> "application/pdf")
    @@ (<<".", "t", "x", "t">> :> "text/plain")
    @@ (<<".", "m", "d">> :> "text/markdown")
    @@ (<<".", "h", "t", "m", "l">> :> "text/html")
    @@ (<<".", "j", "p", "g">> :> "image/jpeg")
    @@ (<<".", "j", "p", "e", "g">> :> "image/jpeg")
    @@ (<<".", "p", "n", "g">> :> "image/png")
    @@ (<<".", "g", "i", "f">> :> "image/gif")
    @@ (<<".", "w", "e", "b", "p">> :> "image/webp")

\* const supportedExtensions = ['.docx', '.doc', '.pdf', ...] at the end of
\* fileFilter
SupportedExtensions ==
    { <<".", "d", "o", "c", "x">>, <<".", "d", "o", "c">>, <<".", "p", "d", "f">>,
      <<".", "t", "x", "t">>, <<".", "m", "d">>, <<".", "h", "t", "m", "l">>,
      <<".", "j", "p", "g">>, <<".", "j", "p", "e", "g">>, <<".", "p", "n", "g">>,
      <<".", "g", "i", "f">>, <<".", "w", "e", "b", "p">> }

\* const extensionToMimeType = { ... } of fixMimeType: ExtensionTypes and .htm
ExtensionToMimeType ==
    ExtensionTypes @@ (<<".", "h", "t", "m">> :> "text/html")

\* The filter looks at the MIME type only.
FileFilterMimeOnly(file) ==
    [accept |-> InFileTypeMap(file.mimetype), mimetype |-> file.mimetype]

\* fileFilter(req, file, cb): whether cb(null, true) is called, and
\* file.mimetype afterwards.
FileFilter(file) ==
    LET mimeType  == file.mimetype
        extension == ToLowerCase(ExtName(file.originalname))
    IN  IF InFileTypeMap(mimeType)
        THEN [accept |-> TRUE, mimetype |-> mimeType]
        ELSE IF extension \in DOMAIN ExtensionTypes
        THEN [accept |-> TRUE, mimetype |-> ExtensionTypes[extension]]
        ELSE IF extension \in SupportedExtensions
        THEN [accept |-> TRUE, mimetype |-> mimeType]
        ELSE [accept |-> FALSE, mimetype |-> mimeType]

\* fixMimeType(fileName, currentMimeType)
FixMimeType(fileName, currentMimeType) ==
    LET extension == ToLowerCase(ExtName(fileName)) IN
    IF /\ \/ currentMimeType = "application/octet-stream"
          \/ ~InFileTypeMap(currentMimeType)
          \/ currentMimeType = "application/msword"
       /\ extension \in DOMAIN ExtensionToMimeType
    THEN ExtensionToMimeType[extension]
    ELSE currentMimeType

\* FILE_TYPE_MAP[mimeType] || 'others'
FileType(mimeType) ==
    IF InFileTypeMap(mimeType) THEN FILE_TYPE_MAP[mimeType] ELSE "others"

\* multer.diskStorage: destination is
\* path.join(FilePathManager.getUserUploadDir(req.userId), fileType), that is
\* BASE_UPLOAD_DIR/{userId}/{Date.now()}/{fileType}, and the file is written
\* there under the generated name.
StoredPath(u, t, fileType, filename) == << "uploads", u, t, fileType, filename >>

\* The files are looked for where multer put them.
ClearPathStored(u, fileId, paths) ==
    { p \in paths : p[2] = u /\ p[Len(p)] = fileId }

\* clearFiles(): path.join(process.env.BASE_UPLOAD_DIR, this.id, file.id),
\* the paths fs.unlink is called with for the file fileId of session u.
ClearPath(u, fileId, paths) == { << "uploads", u, fileId >> }

\* The names and MIME types of the files the filter is explored with.
FilterNames ==
    { <<"a", ".", "p", "d", "f">>, <<"a", ".", "P", "D", "F">>,
      <<"a", ".", "J", "p", "g">>, <<"a", ".", "e", "x", "e">>,
      <<".", "p", "d", "f">>, <<"a">>, <<"a", ".">>,
      <<"a", ".", "p", "d", "f", ".", "e", "x", "e">>,
      <<"a", ".", "e", "x", "e", ".", "p", "n", "g">>,
      <<"a", ".", "h", "t", "m">>, <<"a", ".", "m", "d">> }

FilterTypes ==
    { "image/png", "application/pdf", "text/plain", "audio/mpeg",
      "application/octet-stream", "application/msword", "application/zip",
      "video/mp4", "image/svg+xml", "" }

FilterFiles == [originalname : FilterNames, mimetype : FilterTypes]

\* The files the storage is explored with.
StoredFiles ==
    { [originalname |-> <<"a", ".", "p", "d", "f">>, mimetype |-> "application/pdf"],
      [originalname |-> <<"a", ".", "e", "x", "e">>, mimetype |-> "application/zip"] }

NoFile == [accept |-> FALSE, none |-> TRUE]

NoCleanup == [user |-> "none"]

UploadInit ==
    /\ disk = {}
    /\ filtered = NoFile
    /\ cleaned = NoCleanup

\* The files recorded in the session of u.
FilesOf(ss, u) == IF ss[u].exists THEN ss[u].files ELSE <<>>

\* POST /api/upload of user u with the file `file`: the session middleware,
\* upload.single('file') - fileFilter, then the storage writes the file -
\* and the handler, which records the descriptor in the session.  A file the
\* filter rejects is not written; multer hands the error to next(err) and
\* the response is the error response of express.
Upload(u, file) ==
    LET verdict  == FileFilter(file)
        mimeType == FixMimeType(file.originalname, verdict.mimetype)
        ss       == ResolveSession(sessions, u)
        filename == fileSeq + 1
    IN  /\ workerStats.requests < MaxWorkerRequests
        /\ filtered' = [accept |-> verdict.accept, file |-> file, user |-> u,
                        status |-> IF verdict.accept THEN 200 ELSE 500]
        /\ IF verdict.accept
           THEN /\ disk' = disk \cup
                       { StoredPath(u, dateNow, FileType(mimeType), filename) }
                /\ sessions' = [ss EXCEPT ![u] =
                       AddFile(@, [id |-> filename, name |-> file.originalname,
                                   type |-> mimeType])]
                /\ fileSeq' = fileSeq + 1
           ELSE /\ sessions' = ss
                /\ UNCHANGED <<disk, fileSeq>>
        /\ workerStats' = [workerStats EXCEPT !.requests = @ + 1]
        /\ UNCHANGED <<cleaned, dateNow, uuids, cur, pending, reply, responded>>
        /\ UNCHANGED <<isClientConnected, axiosResponse, timeoutId>>
        /\ UNCHANGED <<balancerVars, chatVars, bridgeVars, managerVars, launcherVars, lockVars, historyVars, ttsVars, mutexVars>>

\* An hour passes on the worker's clock.
HourPasses ==
    /\ dateNow < MaxHours * SweepInterval
    /\ dateNow' = dateNow + SweepInterval
    /\ UNCHANGED <<uuids, cur, pending, reply, responded, fileSeq>>
    /\ UNCHANGED <<workerVars, uploadVars, ttsVars, mutexVars>>
    /\ UNCHANGED <<balancerVars, chatVars, bridgeVars, managerVars, launcherVars, lockVars, historyVars, ttsVars, mutexVars>>

\* session.cleanupInactive() on the session of u: when now - lastActivity >
\* timeout, clearFiles() - fs.unlink(...).catch(() => {}) for every file,
\* this.files = [] - and true; otherwise false.
Cleanup(u) ==
    /\ sessions[u].exists
    /\ LET idle == CleanupInactive(sessions[u], dateNow)
           files == sessions[u].files
           gone == UNION { ClearPath(u, files[i].id, disk) : i \in 1..Len(files) }
       IN  /\ cleaned' = [user |-> u, result |-> idle]
           /\ disk' = IF idle THEN disk \ gone ELSE disk
           /\ sessions' = IF idle THEN [sessions EXCEPT ![u].files = <<>>]
                          ELSE sessions
    /\ UNCHANGED <<filtered, storeVars>>
    /\ UNCHANGED <<isClientConnected, axiosResponse, timeoutId, workerStats>>
    /\ UNCHANGED <<balancerVars, chatVars, bridgeVars, managerVars, launcherVars, lockVars, historyVars, ttsVars, mutexVars>>

\* The filter is explored for the files a session without files is sent:
\* the filter does not look at the session.
FilterNext ==
    \E u \in Clients, file \in FilterFiles :
        FilesOf(sessions, u) = <<>> /\ Upload(u, file)

UploadNext ==
    \/ \E u \in Clients, file \in StoredFiles :
          fileSeq < MaxFiles /\ Upload(u, file)
    \/ HourPasses
    \/ \E u \in Clients : Cleanup(u)


(***************************************************************************)
(*          worker.js, openwebui-bridge.js: POST /api/tts/generate         *)
(***************************************************************************)

\* Length of the texts and number of synthesis requests explored.
MaxTextLen == 2

MaxTtsCalls == 2

\* The characters of a text: white space and a letter.
WhiteSpace == {" ", "\n"}

TtsChars == WhiteSpace \cup {"a"}

RECURSIVE TextsOf(_)
TextsOf(n) ==
    IF n = 0 THEN { <<>> }
    ELSE TextsOf(n - 1) \cup
         { Append(t, c) : t \in { x \in TextsOf(n - 1) : Len(x) = n - 1 }, c \in TtsChars }

\* req.body.text: absent, a string, or a JSON value that is no string (a
\* number other than 0).
TtsTexts ==
    { [kind |-> "undefined", chars |-> <<>>], [kind |-> "number", chars |-> <<>>] }
        \cup { [kind |-> "string", chars |-> t] : t \in TextsOf(MaxTextLen) }

TtsServers == {"worker", "bridge"}

\* String.prototype.trim()
RECURSIVE TrimStart(_)
TrimStart(chars) ==
    IF chars # <<>> /\ Head(chars) \in WhiteSpace THEN TrimStart(Tail(chars))
    ELSE chars

RECURSIVE TrimEnd(_)
TrimEnd(chars) ==
    IF chars # <<>> /\ chars[Len(chars)] \in WhiteSpace
    THEN TrimEnd(SubSeq(chars, 1, Len(chars) - 1))
    ELSE chars

Trim(chars) == TrimEnd(TrimStart(chars))

\* The text is tested without trim().
TtsCheckNoTrim(text) ==
    IF text.kind = "undefined" \/ (text.kind = "string" /\ text.chars = <<>>)
    THEN "reject"
    ELSE IF text.kind # "string" THEN "throw"
    ELSE "pass"

\* worker.js: if (!text || !text.trim()) return res.status(400)...;
\* bridge: if (!text?.trim()) return res.status(400)...  A value without a
\* trim method makes both throw a TypeError, which the catch answers.
TtsCheck(text) ==
    IF text.kind = "undefined" \/ (text.kind = "string" /\ text.chars = <<>>)
    THEN "reject"
    ELSE IF text.kind # "string" THEN "throw"
    ELSE IF Trim(text.chars) = <<>> THEN "reject"
    ELSE "pass"

NoTts == [st |-> "none"]

TtsInit ==
    /\ tts = NoTts
    /\ ttsCalls = 0

\* POST /api/tts/generate up to its first await on the upstream: on the
\* worker the session middleware, then the check of text, then
\* req.session.updateActivity() and setSession, then axios.post(...); on the
\* bridge the check and request.post(...).
TtsGenerate(server, u, text) ==
    LET verdict == TtsCheck(text) IN
    /\ tts.st # "upstream"
    /\ verdict = "pass" => ttsCalls < MaxTtsCalls
    /\ tts' = [st |-> CASE verdict = "reject" -> "rejected"
                        [] verdict = "throw" -> "failed"
                        [] OTHER -> "upstream",
               server |-> server, user |-> u, text |-> text,
               status |-> CASE verdict = "reject" -> 400
                            [] verdict = "throw" -> 500
                            [] OTHER -> 0]
    /\ ttsCalls' = IF verdict = "pass" THEN ttsCalls + 1 ELSE ttsCalls
    /\ IF server = "worker"
       THEN /\ workerStats.requests < MaxWorkerRequests
            /\ sessions' =
                  IF verdict = "pass"
                  THEN [ResolveSession(sessions, u) EXCEPT ![u] = UpdateActivity(@)]
                  ELSE ResolveSession(sessions, u)
            /\ workerStats' =
                  [workerStats EXCEPT
                      !.requests = @ + 1,
                      !.errors = IF verdict = "throw" THEN @ + 1 ELSE @]
       ELSE UNCHANGED <<sessions, workerStats>>
    /\ UNCHANGED <<isClientConnected, axiosResponse, timeoutId>>
    /\ UNCHANGED <<balancerVars, chatVars, bridgeVars, managerVars, launcherVars, storeVars, lockVars, historyVars, uploadVars, mutexVars>>

\* The synthesis request is answered: the audio is sent on, or the catch
\* answers with status 500.
TtsUpstream(ok) ==
    /\ tts.st = "upstream"
    /\ tts' = [tts EXCEPT !.st = IF ok THEN "sent" ELSE "failed",
                          !.status = IF ok THEN 200 ELSE 500]
    /\ workerStats' =
          IF tts.server = "worker" /\ ~ok
          THEN [workerStats EXCEPT !.errors = @ + 1] ELSE workerStats
    /\ UNCHANGED <<ttsCalls, isClientConnected, axiosResponse, timeoutId, sessions>>
    /\ UNCHANGED <<balancerVars, chatVars, bridgeVars, managerVars, launcherVars, storeVars, lockVars, historyVars, uploadVars, mutexVars>>

TtsNext ==
    \/ \E server \in TtsServers, u \in Clients, text \in TtsTexts :
          TtsGenerate(server, u, text)
    \/ \E ok \in BOOLEAN : TtsUpstream(ok)
    \/ HourPasses


(***************************************************************************)
(*        shared.js: LockManager.acquire AND release IN ONE PROCESS        *)
(***************************************************************************)

\* Callers of acquire in a run, and the time the clock runs to.
MaxCallers == 2

MaxLockTime == 30

\* await new Promise(resolve => setTimeout(resolve, 10))
SleepMs == 10

LockCallers == 1..MaxCallers

LockKeys == {"upload_dirs", "sessions"}

\* The timeouts acquire is called with (its default is 10000).
LockTimeouts == {10, 20}

NotCalled == [st |-> "idle"]

MutexInit ==
    /\ lockTable = {}
    /\ callers = [c \in LockCallers |-> NotCalled]
    /\ lockClock = 0

\* The key is set whether the map holds it or not.
TryLockBlind(table, key) == [got |-> TRUE, table |-> table \cup {key}]

\* if (!this.locks.has(key)) { this.locks.set(key, true); return ...; }
TryLock(table, key) ==
    IF key \notin table THEN [got |-> TRUE, table |-> table \cup {key}]
    ELSE [got |-> FALSE, table |-> table]

\* One pass of `while (Date.now() - start < timeout) { ... }` of caller c,
\* which called with key and timeout at time start: the key is taken and
\* acquire returns, or the caller sleeps, or the loop is left and
\* acquire throws.
LoopPass(c, key, start, timeout) ==
    IF lockClock - start < timeout
    THEN LET try == TryLock(lockTable, key) IN
         /\ lockTable' = try.table
         /\ callers' = [callers EXCEPT ![c] =
                [st |-> IF try.got THEN "holding" ELSE "sleeping",
                 key |-> key, start |-> start, timeout |-> timeout]]
    ELSE /\ callers' = [callers EXCEPT ![c] =
                [st |-> "failed", key |-> key, start |-> start, timeout |-> timeout]]
         /\ UNCHANGED lockTable

\* acquire(key, timeout) is called: const start = Date.now() and the first
\* pass of the loop run in the same turn.
AcquireCall(c, key, timeout) ==
    /\ callers[c].st = "idle"
    /\ LoopPass(c, key, lockClock, timeout)
    /\ UNCHANGED lockClock
    /\ UNCHANGED <<balancerVars, chatVars, workerVars, bridgeVars, managerVars, launcherVars, storeVars, lockVars, historyVars, uploadVars, ttsVars>>

\* The timer of the sleep fires and the loop goes round.
AcquireWake(c) ==
    /\ callers[c].st = "sleeping"
    /\ LoopPass(c, callers[c].key, callers[c].start, callers[c].timeout)
    /\ UNCHANGED lockClock
    /\ UNCHANGED <<balancerVars, chatVars, workerVars, bridgeVars, managerVars, launcherVars, storeVars, lockVars, historyVars, uploadVars, ttsVars>>

\* The caller calls the function acquire returned: release(key) {
\* this.locks.delete(key); }
ReleaseCall(c) ==
    /\ callers[c].st = "holding"
    /\ lockTable' = lockTable \ {callers[c].key}
    /\ callers' = [callers EXCEPT ![c].st = "released"]
    /\ UNCHANGED lockClock
    /\ UNCHANGED <<balancerVars, chatVars, workerVars, bridgeVars, managerVars, launcherVars, storeVars, lockVars, historyVars, uploadVars, ttsVars>>

\* Time passes.
LockTick ==
    /\ lockClock < MaxLockTime
    /\ lockClock' = lockClock + SleepMs
    /\ UNCHANGED <<lockTable, callers>>
    /\ UNCHANGED <<balancerVars, chatVars, workerVars, bridgeVars, managerVars, launcherVars, storeVars, lockVars, historyVars, uploadVars, ttsVars>>

MutexNext ==
    \/ \E c \in LockCallers, key \in LockKeys, timeout \in LockTimeouts :
          AcquireCall(c, key, timeout)
    \/ \E c \in LockCallers : AcquireWake(c)
    \/ \E c \in LockCallers : ReleaseCall(c)
    \/ LockTick


Init ==
    /\ BalancerInit /\ ChatInit /\ ManagerInit /\ LauncherInit /\ StoreInit
    /\ LockInit /\ HistoryInit /\ UploadInit /\ TtsInit
    /\ MutexInit

SpecBalancer == Init /\ [][BalancerNext]_vars

SpecWorker == Init /\ [][WorkerNext]_vars

SpecBridge == Init /\ [][BridgeNext]_vars

SpecManager == Init /\ [][ManagerNext]_vars

SpecShutdown == Init /\ [][ShutdownNext]_vars

SpecLauncher == Init /\ [][LauncherNext]_vars

SpecStore == Init /\ [][StoreNext]_vars

SpecSweep == Init /\ [][SweepNext]_vars

SpecLock == Init /\ [][LockNext]_vars

SpecHistory == Init /\ [][HistoryNext]_vars

SpecOverlap == Init /\ [][OverlapNext]_vars

SpecFilter == Init /\ [][FilterNext]_vars

SpecUpload == Init /\ [][UploadNext]_vars

SpecTts == Init /\ [][TtsNext]_vars

SpecMutex == Init /\ [][MutexNext]_vars

(***************************************************************************)
(*                              THE CLAIMS                                 *)
(***************************************************************************)

Last(seq) == seq[Len(seq)]

\* The last two events written are e1, e2.
EndsWith(events, e1, e2) ==
    /\ Len(events) >= 2
    /\ events[Len(events) - 1].type = e1
    /\ events[Len(events)].type = e2

\* C1: round-robin fairness of the balancer.  In every window of N
\* consecutive accepted requests each worker is the target between
\* floor(N/W) and ceil(N/W) times; the cursor has advanced by one modulo W
\* for every accepted request, whatever became of the forward, and stays in
\* 0..W-1.
C1_RoundRobinFair ==
    /\ current \in WorkerIdx
    /\ current = requestCount % NumWorkers
    /\ Len(targets) = requestCount
    /\ \A i \in 1..Len(targets) : \A j \in i..Len(targets) : \A w \in WorkerIdx :
          LET n == j - i + 1
              k == Cardinality({x \in i..j : targets[x] = w})
          IN  /\ n \div NumWorkers <= k
              /\ k <= (n + NumWorkers - 1) \div NumWorkers

\* More requests than workers were accepted and a forward before the last
\* one failed.
C1_Witness ==
    /\ requestCount > NumWorkers
    /\ \E r \in Requests : r < requestCount /\ fwd[r].st = "failed"

\* C2 (as claimed): in worker.js, once the upstream stream has ended normally
\* with the client still connected, a done event is the last event written
\* and the response is ended.
C2_DoneAfterUpstreamEnd ==
    (call = "ended" /\ isClientConnected)
        => /\ res.ended
           /\ res.events # <<>>
           /\ Last(res.events).type = "done"

\* C3 (as claimed): in worker.js, once the upstream call was rejected or its
\* stream failed with the client still connected, the events written end
\* with error, done and the response is ended.
C3_ErrorThenDone ==
    (call \in {"rejected", "errored"} /\ isClientConnected)
        => /\ res.ended
           /\ EndsWith(res.events, "error", "done")

\* C4 (as claimed): once the 120 s timer has fired with no upstream response
\* and the client still connected, the events written end with error, done,
\* the response is ended and the upstream call is no longer outstanding.
C4_TimeoutErrorDone ==
    (timeoutId = "fired" /\ axiosResponse = "null" /\ isClientConnected)
        => /\ res.ended
           /\ EndsWith(res.events, "error", "done")
           /\ call # "pending"

\* C5 (as claimed): the upstream call is cancelled in the step in which the
\* disconnect is observed, so whenever the client of an accepted request is
\* gone, no upstream call of it is outstanding (pending or streaming).
C5_CancelOnDisconnect ==
    ~clientOpen => call \notin {"pending", "streaming"}

\* C6: in worker.js, once the disconnect was observed (isClientConnected is
\* false), no step writes a further chunk event to the response.
C6_NoChunkAfterDisconnect ==
    [][~isClientConnected =>
          ChunkContents(res'.events) = ChunkContents(res.events)]_vars

\* The client left while the upstream call was pending, and a data event
\* carrying a whole content line arrived afterwards: the handler destroyed
\* the stream and wrote no chunk.
C6_Witness ==
    /\ ~isClientConnected
    /\ call = "destroyed"
    /\ delivered = <<"DATA", "{", "a", "}", "NL">>
    /\ ChunkContents(res.events) = <<>>

\* C7 (as claimed): a chat-stream request with an empty message and no files
\* is answered with a 4xx status and a JSON error body, and no upstream call
\* is issued for it.
C7_EmptyInputClientError ==
    (pc = "done" /\ body.message = "" /\ body.nfiles = 0)
        => /\ res.status \in 400..499
           /\ res.contentType = "json"
           /\ res.json = "error"
           /\ call = "none"

\* C8 (as claimed): in worker.js, after a chat-stream of user u completed
\* normally, the concatenation of the chunk contents written is the last
\* entry of the chatHistory of u's session.
C8_AssistantTextAppended ==
    (call = "ended" /\ ChunkContents(res.events) # <<>>)
        => /\ sessions[userId].chatHistory # <<>>
           /\ Last(sessions[userId].chatHistory)
                 = Concat(ChunkContents(res.events))

\* The non-empty content deltas of the parseable data lines of a body, in
\* order: the body decoded as a whole, its lines those ended by a line feed.
RECURSIVE DeltasOf(_)
DeltasOf(lines) ==
    IF lines = <<>> THEN <<>>
    ELSE LET l == Head(lines) IN
         IF /\ l # <<>>
            /\ Head(l) = "DATA"
            /\ JsonOk(Tail(l))
            /\ DeltaContent(Tail(l)) # <<>>
         THEN << DeltaContent(Tail(l)) >> \o DeltasOf(Tail(lines))
         ELSE DeltasOf(Tail(lines))

ExpectedContents(bytes) == DeltasOf(LinesOf(Utf8ToString(bytes)))

\* C9 (as claimed): however the upstream body is split into network chunks,
\* the chunk events written for a stream that ended with the client
\* connected are, in order, the non-empty content deltas of its parseable
\* data lines.
C9_ChunksInUpstreamOrder ==
    (call = "ended" /\ isClientConnected)
        => ChunkContents(res.events) = ExpectedContents(delivered)

\* C10: every accepted request was handed to proxy.web exactly once, its
\* target is the one chosen when it was accepted, and the cursor is one past
\* the target of the last accepted request: a failed forward is not retried
\* and moves the cursor no further.
C10_ForwardedOnce ==
    /\ \A r \in Requests :
          /\ webCalls[r] = (IF r <= requestCount THEN 1 ELSE 0)
          /\ r <= requestCount => fwd[r].target = targets[r]
    /\ requestCount > 0 => current = (targets[requestCount] + 1) % NumWorkers

\* A forward failed before any header was sent (answered 500) and a later
\* request has been accepted since.
C10_Witness ==
    \E r \in Requests :
        /\ fwd[r].st = "failed"
        /\ fwd[r].status = 500
        /\ r < requestCount

\* C11: a forward that failed before any response head was written (the only
\* head written for the request is the callback's own) is answered with
\* status 500 and one JSON body holding success = false, the fixed error text
\* and the message of the error the proxy reported.
C11_FailureResponse ==
    \A r \in Requests :
        (fwd[r].st = "failed" /\ fwd[r].writeHeads = 1) =>
            /\ fwd[r].status = 500
            /\ Len(fwd[r].errorBody) = 1
            /\ fwd[r].errorBody[1].success = FALSE
            /\ fwd[r].errorBody[1].error = "proxy server error"
            /\ fwd[r].errorBody[1].details = fwd[r].err
            /\ fwd[r].err \in ErrorMessages

\* A forward was refused by its worker before any header was sent.
C11_Witness ==
    \E r \in Requests :
        /\ fwd[r].st = "failed"
        /\ fwd[r].writeHeads = 1
        /\ fwd[r].err = "connect ECONNREFUSED"

\* C12: no response has its head written twice: an error reported after the
\* worker's head was flushed to the client calls writeHead on no response
\* again.
C12_HeadWrittenOnce ==
    \A r \in Requests :
        fwd[r].st \in {"forwarding", "responding", "failed"} =>
            fwd[r].writeHeads <= 1

\* C13: the X-Worker-Hit header set on a proxied response names the worker
\* the request was forwarded to, by its index in the workers array or by its
\* ordinal (index + 1).
C13_WorkerHitIsTarget ==
    \A r \in Requests :
        fwd[r].st = "responding" =>
            \/ fwd[r].hit = fwd[r].target
            \/ fwd[r].hit = fwd[r].target + 1

\* ---- the supervisor ----

\* Process p is the tracked process of some ordinal.
TrackedPid(p) == \E id \in Ids : workers[id].pid = p

\* The exit of process p is delivered to the master in this step.
ExitDelivered(p) == procs[p].st = "exited" /\ procs'[p].st = "reaped"

\* checkWorkers looks at the entry of ordinal id in this step.
Visits(id) ==
    /\ check.pc = "iter"
    /\ check.todo # <<>>
    /\ Head(check.todo) = id

\* The memory (MB) of the last stats report made for ordinal id, under the
\* key the workers use; NoStats if there is none.
ReportedRss(id) ==
    IF stats[NumKey(id)] # NoStats THEN stats[NumKey(id)]
    ELSE stats[[kind |-> "string", v |-> id]]

\* C14: the step that delivers the exit of a tracked worker forks a new
\* process with the same ordinal and the port basePort + id - 1 and tracks
\* it under that ordinal; and after every step each ordinal 1..workerCount is
\* tracked with a process of its own ordinal and port that is alive or whose
\* exit is still to be delivered.
C14_CrashRefork ==
    [][ /\ \A p \in 1..Len(procs) :
              (ExitDelivered(p) /\ TrackedPid(p)) =>
                  LET id == procs[p].id
                      q == workers'[id].pid
                  IN  /\ workers[id].pid = p
                      /\ q > Len(procs)
                      /\ q <= Len(procs')
                      /\ procs'[q] = [id |-> id, port |-> basePort + id - 1,
                                      st |-> "alive", shutdownSent |-> FALSE]
        /\ \A id \in Ids :
              LET q == workers'[id].pid
              IN  /\ q \in 1..Len(procs')
                  /\ procs'[q].id = id
                  /\ procs'[q].port = basePort + id - 1
                  /\ procs'[q].st \in {"alive", "exited"}
      ]_vars

\* Every ordinal crashed once and runs its replacement, forked by the exit
\* handler.
C14_Witness ==
    \A id \in Ids :
        /\ workers[id].pid > workerCount
        /\ workers[id].restarts = 0
        /\ procs[workers[id].pid].st = "alive"
        /\ \E p \in 1..workerCount : procs[p].id = id /\ procs[p].st = "reaped"

\* C15: the step that delivers the exit of a tracked worker raises the restart
\* counter of its ordinal by exactly 1, and no step lowers a restart counter.
C15_RestartsCountCrashes ==
    [][ /\ \A p \in 1..Len(procs) :
              (ExitDelivered(p) /\ TrackedPid(p)) =>
                  workers'[procs[p].id].restarts = workers[procs[p].id].restarts + 1
        /\ \A id \in Ids : workers'[id].restarts >= workers[id].restarts
      ]_vars

\* C16: when checkWorkers looks at a tracked worker whose last-reported
\* memory is above maxMemoryRestart or whose uptime is above
\* maxUptimeRestart, it starts the graceful restart of that worker (the
\* shutdown message is sent and the restart waits for the exit).
C16_ThresholdStartsRestart ==
    [][ \A id \in Ids :
            ( /\ Visits(id)
              /\ \/ ReportedRss(id) > maxMemoryRestart
                 \/ now - workers[id].startedAt > maxUptimeRestart )
            => /\ check'.pc = "waiting"
               /\ check'.id = id
               /\ procs'[workers[id].pid].shutdownSent
      ]_vars

\* C17: a check that looks at a worker whose last report has a memory above
\* the ceiling starts one restart of it, and the restart, when it completes,
\* has forked exactly one process since the exit of the old one was awaited
\* and leaves the restart counter one above its value at the start.
C17_OneRestartPerBreach ==
    [][ /\ \A id \in Ids :
              (Visits(id) /\ ReportedRss(id) > maxMemoryRestart)
              => (check'.pc = "waiting" /\ check'.id = id)
        /\ (check.pc = "waiting" /\ check'.pc # "waiting")
              => /\ Len(procs') = Len(procs) + 1
                 /\ workers'[check.id].restarts = check.restarts + 1
      ]_vars

C19_BalancerBeforeWorkers ==
    /\ \A i \in 1..Len(signalLog) :
          signalLog[i].to = "worker" =>
              \E j \in 1..(i - 1) : signalLog[j].to = "balancer"
    /\ (launcherExit = "0" /\ timers # NoTimers) =>
          \A i \in 1..Len(children) : children[i].signalled

\* C20: once shutdown(signal) has run, no step forks a worker process.
C20_NoForkAfterShutdown ==
    [][ shutdowns # <<>> => Len(procs') = Len(procs) ]_vars

\* C21: when the manager has exited with code 0 from its shutdown, no worker
\* process it forked is alive.
C21_WorkersGoneAtExitZero ==
    exitCode = 0 => \A p \in 1..Len(procs) : procs[p].st # "alive"

\* C22: in start.js a worker is forked only after the balancer was spawned
\* and the grace delay is over; the workers forked are 1, 2, ... in order,
\* worker i has port 3001 + i - 1, and no two workers have the same port.
C22_StartupOrder ==
    [][ script' = "start.js" =>
          /\ Len(children') > Len(children) =>
                /\ phase = "forking"
                /\ loadBalancer.st # "none"
                /\ Len(children') = Len(children) + 1
          /\ Len(children') <= WORKER_COUNT
          /\ \A i \in 1..Len(children') :
                /\ children'[i].id = i
                /\ children'[i].port = 3001 + i - 1
          /\ \A i \in 1..Len(children') : \A j \in 1..Len(children') :
                i # j => children'[i].port # children'[j].port
      ]_vars

\* start.js has forked all its workers and serves.
C22_Witness ==
    /\ script = "start.js"
    /\ phase = "serving"
    /\ Len(children) = WORKER_COUNT
    /\ loadBalancer.st = "running"

\* C23: a run of the worker's hourly sweep removes exactly the sessions
\* whose last activity is older than the idle timeout: after the run a
\* session is in the store if and only if it was there before and was not
\* idle for longer than the timeout.
C23_SweepRemovesIdle ==
    [][ dateNow' # dateNow =>
          \A u \in UserIds :
              sessions'[u].exists <=>
                  /\ sessions[u].exists
                  /\ ~CleanupInactive(sessions[u], dateNow')
      ]_vars

\* C29: the session middleware.  Without an x-user-id header the identifier
\* is one never used before and X-User-ID carries it; with the header the
\* identifier is the header's and no X-User-ID is set.  A session already
\* stored under the identifier is attached as it is, files included, and the
\* store does not change; otherwise one new session, without files, is
\* stored under the identifier and every other entry stays.
C29_SessionResolved ==
    [][ (cur = NoReq /\ cur' # NoReq) =>
          LET q == cur' IN
          /\ q.header = Absent =>
                /\ q.xUserId = q.userId
                /\ ~sessions[q.userId].exists
                /\ q.userId \notin Clients \cup { Uuid(k) : k \in 1..uuids }
          /\ q.header # Absent =>
                /\ q.userId = q.header
                /\ q.xUserId = "none"
          /\ sessions'[q.userId].exists
          /\ sessions'[q.userId].id = q.userId
          /\ sessions[q.userId].exists => sessions' = sessions
          /\ ~sessions[q.userId].exists =>
                /\ sessions'[q.userId].files = <<>>
                /\ \A v \in UserIds \ {q.userId} : sessions'[v] = sessions[v]
      ]_vars

\* The middleware has attached a stored session that holds files to a
\* request that named its user, and a generated identifier has a session.
C29_Witness ==
    /\ cur # NoReq
    /\ cur.header # Absent
    /\ sessions[cur.userId].files # <<>>
    /\ uuids > 0
    /\ sessions[Uuid(1)].exists

\* C30: the body of a GET /api/files response for user u has, for every
\* descriptor an upload response for u held so far, a file with the same id,
\* name and type, and its count is the number of those descriptors.
C30_UploadRoundTrip ==
    reply.route = "files" =>
        LET u == reply.userId IN
        /\ reply.count = Len(responded[u])
        /\ reply.count = Len(reply.files)
        /\ \A i \in 1..Len(responded[u]) :
              \E j \in 1..Len(reply.files) :
                  /\ reply.files[j].id = responded[u][i].id
                  /\ reply.files[j].name = responded[u][i].name
                  /\ reply.files[j].type = responded[u][i].type

\* GET /api/files has answered a user who uploaded with both routes.
C30_Witness ==
    /\ reply.route = "files"
    /\ reply.count >= 2
    /\ Len(responded[reply.userId]) >= 2

\* C24: no two worker processes are at the same time between
\* acquire('upload_dirs') returning and release() of initUploadDirs.
C24_OneWorkerInside ==
    \A v \in LockWorkers : \A w \in LockWorkers :
        (v # w /\ initPc[v] \in Inside) => initPc[w] \notin Inside

IsTurn(entry) == entry.role # "system"

Min(a, b) == IF a < b THEN a ELSE b

C26_StoredHistoryBounded ==
    \A u \in Users :
        (/\ storeRef[u] # 0
         /\ \A r \in ChatSlots : chats[r].st # "none" => chats[r].user # u)
            => Len(Stored(u)) <= 1 + 2 * MAX_HISTORY_TURNS

\* C27: every stored history has exactly one system entry, in first place.
C27_OneSystemEntryFirst ==
    \A u \in Users :
        storeRef[u] # 0 =>
            /\ Len(Stored(u)) >= 1
            /\ Stored(u)[1].role = "system"
            /\ \A i \in 2..Len(Stored(u)) : Stored(u)[i].role # "system"

\* A stored history is the result of a truncation that dropped the oldest
\* user message.
C27_Witness ==
    \E u \in Users :
        /\ replies = ChatResponse(u, TRUE)
        /\ Len(Stored(u)) = 1 + 2 * MAX_HISTORY_TURNS
        /\ Stored(u)[2].role = "assistant"

\* C28: a reset succeeds and leaves the system prompt alone as the user's
\* stored history, whatever was stored before; so does a second reset that
\* follows it directly, which leaves the history the first one left.
C28_ResetIdempotent ==
    [][ (chats' = chats /\ chatCount' = chatCount) =>
            /\ replies'.op = "reset"
            /\ replies'.ok
            /\ StoredIn(heap', storeRef', replies'.user) = << SystemEntry >>
            /\ replies'.again =>
                  StoredIn(heap', storeRef', replies'.user)
                      = StoredIn(heap, storeRef, replies'.user)
      ]_vars

\* Two resets for the same user have been answered in a row, after chats.
C28_Witness ==
    /\ replies.op = "reset"
    /\ replies.again
    /\ chatCount > 0
    /\ Stored(replies.user) = << SystemEntry >>

\* C33: restartWorker goes on to fork the replacement only when the process
\* it restarts has exited: the step that ends its wait starts from a state
\* in which that process is no longer alive.
C33_ReforkAfterExit ==
    [][ (check.pc = "waiting" /\ check'.pc # "waiting") =>
            procs[check.pid].st # "alive"
      ]_vars

\* C36: when a stats message of the worker with ordinal i is recorded, the
\* stats checkWorkers reads for ordinal i, this.stats.get(i) with the key
\* of the workers map, are those of the message.
C36_StatsOfTheWorker ==
    [][ \A k \in StatsKeys :
            stats'[k] # stats[k] /\ stats'[k] # NoStats
                => stats'[NumKey(k.v)] = stats'[k]
      ]_vars

\* C38: once a reset for user u has been answered, u's stored history is the
\* system prompt alone and stays so in every step that is not the receipt
\* of a chat-stream request; the end of a stream that was open at the reset
\* is such a step.
C38_ResetStays ==
    [][ \A u \in Users :
            ( /\ replies.op = "reset"
              /\ replies.user = u
              /\ chatCount' = chatCount )
            => /\ storeRef'[u] # 0
               /\ Len(StoredIn(heap', storeRef', u)) = 1
               /\ StoredIn(heap', storeRef', u)[1] = SystemEntry
      ]_vars

\* The requests whose user message has been pushed for u, and those whose
\* assistant reply has been.
Asked(u) ==
    { pushed[u][i].content.message :
          i \in { j \in 1..Len(pushed[u]) : pushed[u][j].role = "user" } }

Answered(u) ==
    { pushed[u][i].content[1] :
          i \in { j \in 1..Len(pushed[u]) : pushed[u][j].role = "assistant" } }

InHistory(entry, history) ==
    \E j \in 1..Len(history) :
        /\ history[j].role = entry.role
        /\ history[j] = entry

\* C39: when no chat-stream request is open, user u was never reset and
\* every request of u has ended normally with a reply, the stored history of
\* u holds the latest 2*MAX_HISTORY_TURNS of the user messages and replies
\* pushed (all of them when they are fewer).
C39_NoLostUpdate ==
    \A u \in Users :
        ( /\ storeRef[u] # 0
          /\ \A r \in ChatSlots : chats[r].st = "none"
          /\ Asked(u) # {}
          /\ pushed[u][1] # ResetMark
          /\ Asked(u) = Answered(u) )
        => LET n == Len(pushed[u])
               k == Min(n, 2 * MAX_HISTORY_TURNS)
           IN  \A i \in (n - k + 1)..n : InHistory(pushed[u][i], Stored(u))



\* The positions of the events of type t among the events written.
Positions(events, t) == { i \in 1..Len(events) : events[i].type = t }

\* C37: on a chat-stream response of the bridge the `data: [DONE]` line is
\* written at most once and no event is written after it.
C37_OneTerminalMarker ==
    \A i \in Positions(res.events, "[DONE]") : i = Len(res.events)


\* C40: once the request of the worker has finished - its handler is through
\* and its response was sent whole or its client has disconnected -
\* workerStats.activeConnections is 0 again.
C40_ActiveConnectionsExact ==
    (pc = "done" /\ (res.finished \/ ~clientOpen))
        => workerStats.activeConnections = 0


C35_CleanupDeletesFiles ==
    [][ \A u \in Clients :
          (cleaned' # cleaned /\ cleaned'.user = u) =>
             LET files == sessions[u].files
                 idle == dateNow - sessions[u].lastActivity > IdleTimeout
             IN  /\ cleaned'.result = idle
                 /\ idle => /\ sessions'[u].files = <<>>
                            /\ \A i \in 1..Len(files) :
                                  ClearPathStored(u, files[i].id, disk') = {}
                 /\ ~idle => /\ sessions'[u].files = files
                             /\ disk' = disk ]_vars


\* The text is missing, empty or white space only.
Blank(text) ==
    \/ text.kind = "undefined"
    \/ text.kind = "string" /\ \A i \in 1..Len(text.chars) : text.chars[i] \in WhiteSpace

\* C32: a POST /api/tts/generate whose text is missing, empty or white space
\* only is answered with status 400, no synthesis request is sent upstream
\* for it, and on the worker the lastActivity of the caller's session, when
\* the session existed, stays as it was.
C32_TtsInputCheck ==
    [][ ( /\ tts' # tts
          /\ tts'.st \in {"rejected", "failed", "upstream"}
          /\ Blank(tts'.text) )
        => /\ tts'.st = "rejected"
           /\ tts'.status = 400
           /\ ttsCalls' = ttsCalls
           /\ (tts'.server = "worker" /\ sessions[tts'.user].exists)
                 => sessions'[tts'.user].lastActivity
                       = sessions[tts'.user].lastActivity ]_vars

\* The worker rejected a text of white space sent by a user whose session
\* was last active an hour or more ago.
C32_Witness ==
    /\ tts.st = "rejected"
    /\ tts.server = "worker"
    /\ tts.text.kind = "string"
    /\ tts.text.chars # <<>>
    /\ sessions[tts.user].exists
    /\ sessions[tts.user].lastActivity < dateNow


\* The callers that hold key: acquire returned to them and they have not
\* released.
Holders(key) ==
    { c \in LockCallers : callers[c].st = "holding" /\ callers[c].key = key }

\* C34: in one process at most one caller holds a key at a time; a caller
\* whose acquire throws has waited for its timeout, does not hold the key,
\* and the throw leaves the lock table as it was.
C34_InProcessMutex ==
    [][ /\ \A key \in LockKeys : Cardinality(Holders(key)') <= 1
        /\ \A key \in LockKeys : Holders(key)' # {} => key \in lockTable'
        /\ \A c \in LockCallers :
              (callers'[c].st = "failed" /\ callers[c].st # "failed")
                 => /\ lockTable' = lockTable
                    /\ lockClock - callers'[c].start >= callers'[c].timeout
                    /\ \A key \in LockKeys : c \notin Holders(key)' ]_vars

\* One caller holds a key for which the acquire of another has timed out.
C34_Witness ==
    \E c, d \in LockCallers :
        /\ callers[c].st = "holding"
        /\ callers[d].st = "failed"
        /\ callers[d].key = callers[c].key

=============================================================================
